---- MODULE Spec2Model ----
(***************************************************************************)
(* Clay data extractor: the content script's DOM traversal (content.js),   *)
(* the row merger, and the background service worker's capture store       *)
(* (background.js), modelled as state machines.                            *)
(*                                                                         *)
(* A JavaScript Map is a sequence of entries in insertion order with       *)
(* unique keys; a cells Map, whose order is never observed, is a function  *)
(* from the field ids it holds to their string values.                     *)
(***************************************************************************)
EXTENDS Integers, Sequences, FiniteSets, TLC

\* ------------------------------------------------------------------------
\* Generic helpers
\* ------------------------------------------------------------------------

Range(s) == {s[i] : i \in DOMAIN s}

\* The last n elements of s (all of s when it is shorter)
LastN(s, n) == IF Len(s) <= n THEN s ELSE SubSeq(s, Len(s) - n + 1, Len(s))

Abs(x) == IF x < 0 THEN -x ELSE x

Max(a, b) == IF a >= b THEN a ELSE b

Min(a, b) == IF a <= b THEN a ELSE b

\* Map.has / index of a key in a Map of rows (0 when absent)
KeyPos(rows, rowId) ==
  IF \E i \in DOMAIN rows : rows[i].id = rowId
  THEN CHOOSE i \in DOMAIN rows : rows[i].id = rowId
  ELSE 0

MapHas(rows, rowId) == KeyPos(rows, rowId) # 0

MapKeys(rows) == {rows[i].id : i \in DOMAIN rows}

\* cells.set(fid, val)
CellsSet(cells, fid, val) ==
  [f \in (DOMAIN cells) \cup {fid} |-> IF f = fid THEN val ELSE cells[f]]

EmptyCells == [f \in {} |-> ""]

\* ------------------------------------------------------------------------
\* content.js SECTION 8: mergeRows / convertRowsMapToArray
\* ------------------------------------------------------------------------

\* Mutation of MergeCells: the guard on the accumulated slot is dropped, so
\* a later non-empty value overwrites an earlier one (last writer wins).
MergeCellsOverwrite(existing, incoming) ==
  [f \in (DOMAIN existing) \cup {g \in DOMAIN incoming : incoming[g] # ""}
     |-> IF f \in DOMAIN incoming /\ incoming[f] # ""
         THEN incoming[f]
         ELSE existing[f]]

\* The inner loop of mergeRows over one incoming row's cells (a set walk:
\* each field id is written independently of the others).
MergeCells(existing, incoming) ==
  [f \in (DOMAIN existing) \cup
         {g \in DOMAIN incoming :
            incoming[g] # "" /\ (g \notin DOMAIN existing \/ existing[g] = "")}
     |-> IF f \in DOMAIN incoming /\ incoming[f] # ""
            /\ (f \notin DOMAIN existing \/ existing[f] = "")
         THEN incoming[f]
         ELSE existing[f]]

\* Mutation of mergeRows: an existing key also takes the index of the incoming
\* row.
RECURSIVE mergeRowsLastIndex(_, _, _)
mergeRowsLastIndex(target, source, i) ==
  IF i > Len(source) THEN target
  ELSE LET rowData == source[i]
           p == KeyPos(target, rowData.id)
       IN IF p # 0
          THEN mergeRowsLastIndex(
                 [target EXCEPT ![p].cells = MergeCells(@, rowData.cells),
                                ![p].index = rowData.index],
                 source, i + 1)
          ELSE mergeRowsLastIndex(Append(target, rowData), source, i + 1)

RECURSIVE mergeRowsFrom(_, _, _)
mergeRowsFrom(target, source, i) ==
  IF i > Len(source) THEN target
  ELSE LET rowData == source[i]
           p == KeyPos(target, rowData.id)
       IN IF p # 0
          THEN mergeRowsFrom(
                 [target EXCEPT ![p].cells = MergeCells(@, rowData.cells)],
                 source, i + 1)
          ELSE mergeRowsFrom(Append(target, rowData), source, i + 1)

\* Mutation of mergeRows: every incoming row is inserted, whether or not its
\* key is already in the accumulator.
mergeRowsNoKey(target, source) == target \o source

mergeRows(target, source) == mergeRowsFrom(target, source, 1)

\* Array.prototype.sort with (a, b) => a.index - b.index: a stable sort,
\* computed here as an insertion sort that keeps equal indices in order.
RECURSIVE InsertByIndex(_, _)
InsertByIndex(sorted, row) ==
  IF sorted = << >> THEN <<row>>
  ELSE IF sorted[Len(sorted)].index <= row.index
       THEN Append(sorted, row)
       ELSE Append(InsertByIndex(SubSeq(sorted, 1, Len(sorted) - 1), row),
                   sorted[Len(sorted)])

RECURSIVE SortFrom(_, _, _)
SortFrom(rowsMap, i, sorted) ==
  IF i > Len(rowsMap) THEN sorted
  ELSE SortFrom(rowsMap, i + 1, InsertByIndex(sorted, rowsMap[i]))

\* Mutation of SortByIndex: the sort call is missing, rows stay in
\* insertion order.
SortByIndexMissing(rowsMap) == rowsMap

SortByIndex(rowsMap) == SortFrom(rowsMap, 1, << >>)

\* fieldIds.map(fid => row.cells.get(fid) || '')
ProjectRow(row, fieldIds) ==
  [j \in 1..Len(fieldIds) |->
     IF fieldIds[j] \in DOMAIN row.cells THEN row.cells[fieldIds[j]] ELSE ""]

convertRowsMapToArray(rowsMap, fieldIds) ==
  LET sorted == SortByIndex(rowsMap)
  IN [i \in 1..Len(sorted) |-> ProjectRow(sorted[i], fieldIds)]

\* ------------------------------------------------------------------------
\* The page: a virtualized grid behind #grid-view-scroll-container.
\* A grid is a record
\*   nRows, nCols       the table's extent
\*   rowH, colW         pixel height of a row, width of a column
\*   clientHeight, clientWidth   the scroll container's viewport
\*   hasHeaders         header cells are present in the document
\*   hasContainer       #grid-view-scroll-container is present
\*   lead               rows carry a TableLeadingCell with a row-id class
\*   dup                every rendered row is present as two elements
\*   testIdCols         columns whose cells carry no data-cell-id and are
\*                      found by data-testid / id only
\*   spacer             the body holds an element whose data-index is not
\*                      a number
\*   blank              the (row, column) pairs whose cell text is empty
\*   svg                the (row, column) pairs whose cell holds one link
\*                      that is an SVG <a> element (its href is an
\*                      SVGAnimatedString, which has no includes method)
\* Only rows and columns that intersect the viewport are in the document.
\* ------------------------------------------------------------------------

FieldId(c) == "f_" \o ToString(c)

Label(c) == "Col" \o ToString(c)

CellText(g, r, c) ==
  IF <<r, c>> \in g.blank THEN "" ELSE "v" \o ToString(r) \o "." \o ToString(c)

\* scrollHeight / scrollWidth: the content's extent, never less than the
\* viewport
ScrollHeight(g) == Max(g.nRows * g.rowH, g.clientHeight)

ScrollWidth(g) == Max(g.nCols * g.colW, g.clientWidth)

MaxScrollTop(g) == ScrollHeight(g) - g.clientHeight

MaxScrollLeft(g) == ScrollWidth(g) - g.clientWidth

\* Assigning element.scrollTop / scrollLeft clamps to the scrollable extent.
Clamp(v, hi) == IF v < 0 THEN 0 ELSE IF v > hi THEN hi ELSE v

VisibleRows(g, top) ==
  {r \in 1..g.nRows : (r - 1) * g.rowH < top + g.clientHeight /\ r * g.rowH > top}

VisibleCols(g, left) ==
  {c \in 1..g.nCols : (c - 1) * g.colW < left + g.clientWidth /\ c * g.colW > left}

\* The set S of integers as an ascending sequence
RECURSIVE SetToSeq(_)
SetToSeq(S) ==
  IF S = {} THEN << >>
  ELSE LET m == CHOOSE x \in S : \A y \in S : x <= y
       IN <<m>> \o SetToSeq(S \ {m})

\* One row element: data-index, the row id of its leading cell ("" when
\* there is none), the cells found by [data-cell-id] and the cells found
\* by [data-testid^="cell-"] whose id names the field.
RowElement(g, r, cols) ==
  LET cs == SetToSeq(cols)
      cell(c) == [fieldId |-> FieldId(c), value |-> CellText(g, r, c),
                  svgLink |-> <<r, c>> \in g.svg]
  IN [indexOk |-> TRUE,
      dataIndex |-> r - 1,
      leadId |-> IF g.lead THEN "row" \o ToString(r) ELSE "",
      dataCells |-> [i \in 1..Len(SelectSeq(cs, LAMBDA c : c \notin g.testIdCols))
                       |-> cell(SelectSeq(cs, LAMBDA c : c \notin g.testIdCols)[i])],
      testIdCells |-> [i \in 1..Len(SelectSeq(cs, LAMBDA c : c \in g.testIdCols))
                       |-> cell(SelectSeq(cs, LAMBDA c : c \in g.testIdCols)[i])]]

SpacerElement ==
  [indexOk |-> FALSE, dataIndex |-> 0, leadId |-> "",
   dataCells |-> << >>, testIdCells |-> << >>]

\* body.querySelectorAll('[data-index]') at a scroll position, in document
\* order.
RECURSIVE RenderRows(_, _, _)
RenderRows(g, rs, cols) ==
  IF rs = << >> THEN << >>
  ELSE LET r == Head(rs)
           lo == {c \in cols : \A d \in cols : c <= d}
       IN (IF g.dup /\ Cardinality(cols) > 1
           THEN <<RowElement(g, r, lo), RowElement(g, r, cols \ lo)>>
           ELSE <<RowElement(g, r, cols)>>)
          \o RenderRows(g, Tail(rs), cols)

Render(g, top, left) ==
  (IF g.spacer THEN <<SpacerElement>> ELSE << >>)
  \o RenderRows(g, SetToSeq(VisibleRows(g, top)), VisibleCols(g, left))

\* document.querySelectorAll('[data-testid="table-header-cell"]')
HeaderCells(g) ==
  IF g.hasHeaders
  THEN [c \in 1..g.nCols |-> [fieldId |-> FieldId(c), label |-> Label(c)]]
  ELSE << >>

\* ------------------------------------------------------------------------
\* content.js SECTION 3/4: extractHeaders, extractRenderedRows
\* ------------------------------------------------------------------------

\* Mutation of extractHeaders: no throw when there is no header cell.
extractHeadersNoThrow(g) ==
  LET cells == HeaderCells(g)
  IN [ok |-> TRUE,
      labels |-> [i \in 1..Len(cells) |-> cells[i].label],
      fieldIds |-> [i \in 1..Len(cells) |-> cells[i].fieldId]]

\* extractHeaders throws when there is no header cell; ok = FALSE stands
\* for the throw.
extractHeaders(g) ==
  LET cells == HeaderCells(g)
  IN IF Len(cells) = 0
     THEN [ok |-> FALSE, labels |-> << >>, fieldIds |-> << >>]
     ELSE [ok |-> TRUE,
           labels |-> [i \in 1..Len(cells) |-> cells[i].label],
           fieldIds |-> [i \in 1..Len(cells) |-> cells[i].fieldId]]

\* Row identity: the leading cell's row id, else the data-index.
RowIdOf(rowEl) ==
  IF rowEl.leadId # "" THEN "r_" \o rowEl.leadId
  ELSE "idx_" \o ToString(rowEl.dataIndex)

\* Method 1: every [data-cell-id] whose field is a known column
RECURSIVE Method1(_, _, _, _)
Method1(cellEls, fieldIds, i, cellValues) ==
  IF i > Len(cellEls) THEN cellValues
  ELSE IF cellEls[i].fieldId \notin Range(fieldIds)
       THEN Method1(cellEls, fieldIds, i + 1, cellValues)
       ELSE Method1(cellEls, fieldIds, i + 1,
                    CellsSet(cellValues, cellEls[i].fieldId, cellEls[i].value))

\* Method 2: [data-testid^="cell-"] whose id names a field not yet read.
\* (Method 3 re-reads [data-cell-id] elements of the sticky div with the
\* same column filter; Method 1 has read all of them, so it adds nothing.)
RECURSIVE Method2(_, _, _)
Method2(cellEls, i, cellValues) ==
  IF i > Len(cellEls) THEN cellValues
  ELSE IF cellEls[i].fieldId \in DOMAIN cellValues
       THEN Method2(cellEls, i + 1, cellValues)
       ELSE Method2(cellEls, i + 1,
                    CellsSet(cellValues, cellEls[i].fieldId, cellEls[i].value))

\* "Merge with existing row data" inside one extraction
FillCells(existing, cellValues) ==
  [f \in (DOMAIN existing) \cup (DOMAIN cellValues) |->
     IF f \in DOMAIN cellValues /\ (f \notin DOMAIN existing \/ existing[f] = "")
     THEN cellValues[f]
     ELSE existing[f]]

RECURSIVE extractFrom(_, _, _, _)
extractFrom(rowElements, fieldIds, i, rows) ==
  IF i > Len(rowElements) THEN rows
  ELSE LET rowEl == rowElements[i]
           rowId == RowIdOf(rowEl)
           p == KeyPos(rows, rowId)
           cellValues == Method2(rowEl.testIdCells, 1,
                           Method1(rowEl.dataCells, fieldIds, 1, EmptyCells))
       IN IF ~rowEl.indexOk
          THEN extractFrom(rowElements, fieldIds, i + 1, rows)
          ELSE IF p # 0 /\ Cardinality(DOMAIN rows[p].cells) >= Len(fieldIds)
          THEN extractFrom(rowElements, fieldIds, i + 1, rows)
          ELSE IF p # 0
          THEN extractFrom(rowElements, fieldIds, i + 1,
                 [rows EXCEPT ![p].cells = FillCells(@, cellValues)])
          ELSE extractFrom(rowElements, fieldIds, i + 1,
                 Append(rows, [id |-> rowId, index |-> rowEl.dataIndex,
                               cells |-> cellValues]))

\* extractCellValue throws a TypeError at href.includes when the cell's one
\* link is an SVG <a>; the throw leaves extractRenderedRows at the first row
\* element that is not skipped and has such a cell.
extractThrows(rowElements, fieldIds) ==
  \E i \in DOMAIN rowElements :
    LET rowEl == rowElements[i]
        rows == extractFrom(SubSeq(rowElements, 1, i - 1), fieldIds, 1, << >>)
        p == KeyPos(rows, RowIdOf(rowEl))
    IN /\ rowEl.indexOk
       /\ ~(p # 0 /\ Cardinality(DOMAIN rows[p].cells) >= Len(fieldIds))
       /\ \/ \E k \in DOMAIN rowEl.dataCells :
               rowEl.dataCells[k].svgLink /\ rowEl.dataCells[k].fieldId \in Range(fieldIds)
          \/ \E k \in DOMAIN rowEl.testIdCells : rowEl.testIdCells[k].svgLink

\* extractRenderedRows over the elements the document holds now
extractRenderedRows(rowElements, fieldIds) ==
  extractFrom(rowElements, fieldIds, 1, << >>)

\* ------------------------------------------------------------------------
\* background.js: the JSON value of an intercepted API response.
\* A value is a record tagged with its JavaScript type.
\* ------------------------------------------------------------------------

JNull == [t |-> "null"]

\* What reading a key that an object does not have gives
JUndefined == [t |-> "undefined"]

JStr(s) == [t |-> "string", s |-> s]

JNum(n) == [t |-> "number", n |-> n]

JBool(b) == [t |-> "boolean", b |-> b]

JArr(items) == [t |-> "array", items |-> items]

JObj(keys, vals) == [t |-> "object", keys |-> keys, vals |-> vals]

\* typeof v === 'object' && v !== null
IsObjectLike(v) == v.t \in {"array", "object"}

\* Object.keys(v) of an object or an array
ObjectKeys(v) ==
  IF v.t = "object" THEN v.keys
  ELSE IF v.t = "array" THEN [i \in 1..Len(v.items) |-> ToString(i - 1)]
  ELSE << >>

HasKey(v, k) == k \in Range(ObjectKeys(v))

\* v[k] for a v that is not null (a primitive has none of the keys that
\* occur in the responses)
GetProp(v, k) ==
  IF v.t = "object" /\ HasKey(v, k)
  THEN v.vals[CHOOSE i \in DOMAIN v.keys : v.keys[i] = k]
  ELSE IF v.t = "array" /\ HasKey(v, k)
  THEN v.items[CHOOSE i \in DOMAIN v.items : ToString(i - 1) = k]
  ELSE IF v.t = "array" /\ k = "length" THEN JNum(Len(v.items))
  ELSE JUndefined

\* Array.prototype.join
RECURSIVE Join(_, _)
Join(strs, sep) ==
  IF strs = << >> THEN ""
  ELSE IF Len(strs) = 1 THEN strs[1]
  ELSE strs[1] \o sep \o Join(Tail(strs), sep)

\* String(v)
RECURSIVE JsString(_)
JsString(v) ==
  IF v.t = "string" THEN v.s
  ELSE IF v.t = "number" THEN ToString(v.n)
  ELSE IF v.t = "boolean" THEN (IF v.b THEN "true" ELSE "false")
  ELSE IF v.t = "array"
  THEN Join([i \in 1..Len(v.items) |->
               IF v.items[i].t \in {"null", "undefined"} THEN ""
               ELSE JsString(v.items[i])], ",")
  ELSE IF v.t = "object" THEN "[object Object]"
  ELSE v.t

\* JSON.stringify(v) (the strings of the responses need no escaping)
RECURSIVE JsonStringify(_)
JsonStringify(v) ==
  IF v.t = "string" THEN "\"" \o v.s \o "\""
  ELSE IF v.t = "array"
  THEN "[" \o Join([i \in 1..Len(v.items) |-> JsonStringify(v.items[i])], ",") \o "]"
  ELSE IF v.t = "object"
  THEN "{" \o Join([i \in 1..Len(v.keys) |->
                      "\"" \o v.keys[i] \o "\":" \o JsonStringify(v.vals[i])], ",")
           \o "}"
  ELSE JsString(v)

\* The keys flattenValue looks for in an object, in the order it tries them:
\* the first six are flattened in turn, the last four are given to String().
FlattenedKeys == <<"value", "text", "name", "label", "title", "display">>

StringKeys == <<"url", "href", "email", "phone">>

\* The first key of ks that v has ("" when it has none of them)
FirstKeyOf(v, ks) ==
  IF \E i \in DOMAIN ks : HasKey(v, ks[i])
  THEN ks[CHOOSE i \in DOMAIN ks :
            HasKey(v, ks[i]) /\ \A j \in 1..(i - 1) : ~HasKey(v, ks[j])]
  ELSE ""

\* keys.length <= 4
MaxInlineKeys == 4

\* Mutation of flattenValue: null and undefined are given to String() like
\* the other primitives.
RECURSIVE flattenValueOfNullText(_)
flattenValueOfNullText(val) ==
  IF val.t \in {"null", "undefined"} THEN val.t
  ELSE IF val.t = "string" THEN val.s
  ELSE IF val.t \in {"number", "boolean"} THEN JsString(val)
  ELSE IF val.t = "array"
  THEN IF Len(val.items) = 0 THEN ""
       ELSE IF \A i \in DOMAIN val.items : ~IsObjectLike(val.items[i])
       THEN Join([i \in 1..Len(val.items) |->
                    IF val.items[i].t = "null" THEN "" ELSE JsString(val.items[i])],
                 "; ")
       ELSE Join([i \in 1..Len(val.items) |->
                    flattenValueOfNullText(val.items[i])], "; ")
  ELSE IF FirstKeyOf(val, FlattenedKeys) # ""
  THEN flattenValueOfNullText(GetProp(val, FirstKeyOf(val, FlattenedKeys)))
  ELSE IF FirstKeyOf(val, StringKeys) # ""
  THEN JsString(GetProp(val, FirstKeyOf(val, StringKeys)))
  ELSE IF Len(val.keys) <= MaxInlineKeys
  THEN Join([i \in 1..Len(val.keys) |->
               val.keys[i] \o ": " \o flattenValueOfNullText(val.vals[i])], ", ")
  ELSE JsonStringify(val)

RECURSIVE flattenValue(_)
flattenValue(val) ==
  IF val.t \in {"null", "undefined"} THEN ""
  ELSE IF val.t = "string" THEN val.s
  ELSE IF val.t \in {"number", "boolean"} THEN JsString(val)
  ELSE IF val.t = "array"
  THEN IF Len(val.items) = 0 THEN ""
       ELSE IF \A i \in DOMAIN val.items : ~IsObjectLike(val.items[i])
       THEN Join([i \in 1..Len(val.items) |->
                    IF val.items[i].t = "null" THEN "" ELSE JsString(val.items[i])],
                 "; ")
       ELSE Join([i \in 1..Len(val.items) |-> flattenValue(val.items[i])], "; ")
  ELSE IF FirstKeyOf(val, FlattenedKeys) # ""
  THEN flattenValue(GetProp(val, FirstKeyOf(val, FlattenedKeys)))
  ELSE IF FirstKeyOf(val, StringKeys) # ""
  THEN JsString(GetProp(val, FirstKeyOf(val, StringKeys)))
  ELSE IF Len(val.keys) <= MaxInlineKeys
  THEN Join([i \in 1..Len(val.keys) |->
               val.keys[i] \o ": " \o flattenValue(val.vals[i])], ", ")
  ELSE JsonStringify(val)

\* ------------------------------------------------------------------------
\* background.js: parseApiResponsesToTable
\* ------------------------------------------------------------------------

\* if (depth > 8) return results
MaxDepth == 8

\* obj.slice(0, Math.min(5, obj.length))
ConsistencySample == 5

\* for (let i = 1; i < Math.min(arr.length, 10); i++)
HeaderSample == 10

\* firstKeys.length >= 2
MinKeys == 2

\* Mutation of LooksLikeRows: more than half of the first item's keys must
\* be shared.
LooksLikeRowsMajority(items) ==
  /\ Len(items) >= 1
  /\ items[1].t = "object"
  /\ Len(ObjectKeys(items[1])) >= MinKeys
  /\ \A i \in 1..Min(ConsistencySample, Len(items)) :
       /\ IsObjectLike(items[i])
       /\ 2 * Cardinality({k \in DOMAIN ObjectKeys(items[1]) :
                             HasKey(items[i], ObjectKeys(items[1])[k])})
            > Len(ObjectKeys(items[1]))

\* "Check if this array looks like table rows"
LooksLikeRows(items) ==
  /\ Len(items) >= 1
  /\ items[1].t = "object"
  /\ Len(ObjectKeys(items[1])) >= MinKeys
  /\ \A i \in 1..Min(ConsistencySample, Len(items)) :
       /\ IsObjectLike(items[i])
       /\ 2 * Cardinality({k \in DOMAIN ObjectKeys(items[1]) :
                             HasKey(items[i], ObjectKeys(items[1])[k])})
            >= Len(ObjectKeys(items[1]))

\* Mutation of findAllTableArrays: the walk stops one level earlier.
RECURSIVE findAllTableArraysShallow(_, _, _)
RECURSIVE findInEachShallow(_, _, _, _)
findInEachShallow(vals, i, depth, results) ==
  IF i > Len(vals) THEN results
  ELSE findInEachShallow(vals, i + 1, depth,
                         findAllTableArraysShallow(vals[i], depth, results))

findAllTableArraysShallow(obj, depth, results) ==
  IF depth >= MaxDepth THEN results
  ELSE IF obj.t = "array"
  THEN findInEachShallow(obj.items, 1, depth + 1,
                         IF LooksLikeRows(obj.items) THEN Append(results, obj.items)
                         ELSE results)
  ELSE IF obj.t = "object" THEN findInEachShallow(obj.vals, 1, depth + 1, results)
  ELSE results

RECURSIVE findAllTableArrays(_, _, _)
RECURSIVE findInEach(_, _, _, _)
\* The recursive calls on the members vals[i..] of an array or an object
findInEach(vals, i, depth, results) ==
  IF i > Len(vals) THEN results
  ELSE findInEach(vals, i + 1, depth,
                  findAllTableArrays(vals[i], depth, results))

findAllTableArrays(obj, depth, results) ==
  IF depth > MaxDepth THEN results
  ELSE IF obj.t = "array"
  THEN findInEach(obj.items, 1, depth + 1,
                  IF LooksLikeRows(obj.items) THEN Append(results, obj.items)
                  ELSE results)
  ELSE IF obj.t = "object" THEN findInEach(obj.vals, 1, depth + 1, results)
  ELSE results

\* new Set(...).add(key) for each key of keys, in order
RECURSIVE AddKeys(_, _, _)
AddKeys(allKeys, keys, i) ==
  IF i > Len(keys) THEN allKeys
  ELSE AddKeys(IF keys[i] \in Range(allKeys) THEN allKeys
               ELSE Append(allKeys, keys[i]),
               keys, i + 1)

RECURSIVE CollectKeys(_, _, _)
CollectKeys(arr, i, allKeys) ==
  IF i > Min(Len(arr), HeaderSample) THEN allKeys
  ELSE CollectKeys(arr, i + 1,
                   IF IsObjectLike(arr[i])
                   THEN AddKeys(allKeys, ObjectKeys(arr[i]), 1)
                   ELSE allKeys)

skipKeys ==
  {"__typename", "_id", "createdAt", "updatedAt", "created_at", "updated_at",
   "__v", "cursor", "node"}

\* Mutation of extractHeadersFromObjects: no key is filtered out.
extractHeadersFromObjectsUnfiltered(arr) ==
  CollectKeys(arr, 2, ObjectKeys(arr[1]))

extractHeadersFromObjects(arr) ==
  SelectSeq(CollectKeys(arr, 2, ObjectKeys(arr[1])), LAMBDA k : k \notin skipKeys)

\* Mutation of RowOf: the row is built from the item's own keys instead of
\* the table's headers.
RowOfOwnKeys(item, headers) ==
  [j \in 1..Len(ObjectKeys(item)) |->
     flattenValue(GetProp(item, ObjectKeys(item)[j]))]

\* headers.map(h => flattenValue(item[h]))
RowOf(item, headers) ==
  [j \in 1..Len(headers) |-> flattenValue(GetProp(item, headers[j]))]

\* The arrays the outer and inner loops of parseApiResponsesToTable walk,
\* in order
RECURSIVE Candidates(_, _)
Candidates(responses, i) ==
  IF i > Len(responses) THEN << >>
  ELSE findAllTableArrays(responses[i].data, 0, << >>)
       \o Candidates(responses, i + 1)

NullTable == [null |-> TRUE, headers |-> << >>, rows |-> << >>]

Table(headers, rows) == [null |-> FALSE, headers |-> headers, rows |-> rows]

\* Mutation of BestOf: of the candidates with the most rows the last one is
\* kept.
RECURSIVE BestOfLast(_, _, _)
BestOfLast(cands, i, bestResult) ==
  IF i > Len(cands) THEN bestResult
  ELSE LET tableData == cands[i]
           headers == extractHeadersFromObjects(tableData)
           rows == [r \in 1..Len(tableData) |-> RowOf(tableData[r], headers)]
       IN IF Len(tableData) = 0 \/ Len(headers) = 0
          THEN BestOfLast(cands, i + 1, bestResult)
          ELSE IF bestResult.null \/ Len(rows) >= Len(bestResult.rows)
          THEN BestOfLast(cands, i + 1, Table(headers, rows))
          ELSE BestOfLast(cands, i + 1, bestResult)

\* Mutation of BestOf: a candidate without headers is not skipped.
RECURSIVE BestOfHeaderless(_, _, _)
BestOfHeaderless(cands, i, bestResult) ==
  IF i > Len(cands) THEN bestResult
  ELSE LET tableData == cands[i]
           headers == extractHeadersFromObjects(tableData)
           rows == [r \in 1..Len(tableData) |-> RowOf(tableData[r], headers)]
       IN IF Len(tableData) = 0
          THEN BestOfHeaderless(cands, i + 1, bestResult)
          ELSE IF bestResult.null \/ Len(rows) > Len(bestResult.rows)
          THEN BestOfHeaderless(cands, i + 1, Table(headers, rows))
          ELSE BestOfHeaderless(cands, i + 1, bestResult)

RECURSIVE BestOf(_, _, _)
BestOf(cands, i, bestResult) ==
  IF i > Len(cands) THEN bestResult
  ELSE LET tableData == cands[i]
           headers == extractHeadersFromObjects(tableData)
           rows == [r \in 1..Len(tableData) |-> RowOf(tableData[r], headers)]
       IN IF Len(tableData) = 0 \/ Len(headers) = 0
          THEN BestOf(cands, i + 1, bestResult)
          ELSE IF bestResult.null \/ Len(rows) > Len(bestResult.rows)
          THEN BestOf(cands, i + 1, Table(headers, rows))
          ELSE BestOf(cands, i + 1, bestResult)

\* item[h] throws a TypeError when item is null; ok = FALSE stands for the
\* throw, which leaves parseApiResponsesToTable without a result.
parseApiResponsesToTable(responses) ==
  LET cands == Candidates(responses, 1)
  IN IF \E i \in DOMAIN cands :
          /\ Len(extractHeadersFromObjects(cands[i])) > 0
          /\ \E r \in DOMAIN cands[i] : cands[i][r].t = "null"
     THEN [ok |-> FALSE, table |-> NullTable]
     ELSE [ok |-> TRUE, table |-> BestOf(cands, 1, NullTable)]

\* ------------------------------------------------------------------------
\* interceptor.js: containsTableData, which sets a payload's hasTableData
\* ------------------------------------------------------------------------

\* if (depth > 6) return []
MaxScanDepth == 6

\* obj.slice(0, 3)
ScanSample == 3

\* findArraysOfObjects(obj, depth).length > 0
RECURSIVE findArraysOfObjects(_, _)
findArraysOfObjects(obj, depth) ==
  IF depth > MaxScanDepth THEN FALSE
  ELSE IF obj.t = "array"
  THEN \/ /\ Len(obj.items) >= 1
          /\ obj.items[1].t = "object"
          /\ Len(ObjectKeys(obj.items[1])) >= MinKeys
       \/ \E i \in 1..Min(ScanSample, Len(obj.items)) :
            IsObjectLike(obj.items[i]) /\ findArraysOfObjects(obj.items[i], depth + 1)
  ELSE IF obj.t = "object"
  THEN \E i \in DOMAIN obj.vals : findArraysOfObjects(obj.vals[i], depth + 1)
  ELSE FALSE

containsTableData(data) == IsObjectLike(data) /\ findArraysOfObjects(data, 0)

\* The payload relayData posts for a response body
Payload(url, data) ==
  [url |-> url, data |-> data, hasTableData |-> containsTableData(data),
   timestamp |-> 0]

\* timestamp: Date.now()
Stamped(payload, now) == [payload EXCEPT !.timestamp = now]

\* ------------------------------------------------------------------------
\* The API responses the page is seen to receive
\* ------------------------------------------------------------------------

\* API_DATA_CAPTURED messages between two CLEAR_DATA messages
MaxCaptures == 2

ClayUrl == "https://app.clay.com/workspaces/1/tables/t_1"

Person(keys, vals) == JObj(<<"name">> \o keys, <<JStr("Ann")>> \o vals)

Payloads ==
  { \* three records with different keys, a null and an array value
    Payload("/v3/records",
      JArr(<<Person(<<"age">>, <<JNum(30)>>),
             Person(<<"email">>, <<JNull>>),
             Person(<<"tags">>, <<JArr(<<JStr("a"), JStr("b")>>)>>)>>)),
    \* one record inside a wrapper object, with a metadata key and a nested
    \* value
    Payload("/v3/views",
      JObj(<<"results">>,
           <<JArr(<<JObj(<<"_id", "title">>,
                         <<JStr("1"), JObj(<<"text">>, <<JStr("T")>>)>>)>>)>>)),
    \* no array of objects
    Payload("/v3/status", JObj(<<"ok">>, <<JBool(TRUE)>>)),
    \* an array of objects that have metadata keys only
    Payload("/v3/pages",
      JArr(<<JObj(<<"_id", "cursor">>, <<JStr("1"), JStr("c")>>)>>)),
    \* an array whose sixth item is null
    Payload("/v3/sparse",
      JArr(<<Person(<<"n">>, <<JNum(1)>>), Person(<<"n">>, <<JNum(2)>>),
             Person(<<"n">>, <<JNum(3)>>), Person(<<"n">>, <<JNum(4)>>),
             Person(<<"n">>, <<JNum(5)>>), JNull>>)) }

\* ------------------------------------------------------------------------
\* Bounds and scenarios
\* ------------------------------------------------------------------------

\* SCRAPE_ALL / SCRAPE_VISIBLE messages the content script receives in one
\* behaviour
MaxRuns == 2

\* Program constants of scrapeAllRowsByScrolling
MinVerticalStep == 150

MinHorizontalStep == 300

HorizontalThreshold == 10

StableDelta == 2

StableLimit == 3

\* let prevScrollTop = -1
InitialPrev == -1

NoGrid ==
  [nRows |-> 0, nCols |-> 0, rowH |-> 0, colW |-> 0,
   clientHeight |-> 0, clientWidth |-> 0, hasHeaders |-> FALSE,
   hasContainer |-> FALSE, lead |-> FALSE, dup |-> FALSE, testIdCols |-> {},
   spacer |-> FALSE, blank |-> {}, svg |-> {}, initTop |-> 0, initLeft |-> 0]

\* Viewport sizes are multiples of 5, so that 0.6 * size is a whole number
\* and every scroll position is an integer.
Grids ==
  { \* 7 rows x 3 columns, 3 rows x 2 columns in view: 2 horizontal offsets
    [NoGrid EXCEPT !.nRows = 7, !.nCols = 3, !.rowH = 100, !.colW = 250,
       !.clientHeight = 300, !.clientWidth = 500, !.hasHeaders = TRUE,
       !.hasContainer = TRUE, !.lead = TRUE, !.initTop = 100, !.initLeft = 50],
    \* a viewport shorter than the minimum vertical step; rows without a
    \* leading cell; each row present as two elements
    [NoGrid EXCEPT !.nRows = 5, !.nCols = 2, !.rowH = 50, !.colW = 300,
       !.clientHeight = 100, !.clientWidth = 600, !.hasHeaders = TRUE,
       !.hasContainer = TRUE, !.dup = TRUE, !.initTop = 50],
    \* a viewport narrower than the minimum horizontal step
    [NoGrid EXCEPT !.nRows = 2, !.nCols = 6, !.rowH = 100, !.colW = 100,
       !.clientHeight = 300, !.clientWidth = 200, !.hasHeaders = TRUE,
       !.hasContainer = TRUE, !.lead = TRUE],
    \* four horizontal offsets, the last not a multiple of the step; no
    \* vertical scrolling; one empty cell; one column found by test id only
    [NoGrid EXCEPT !.nRows = 2, !.nCols = 4, !.rowH = 100, !.colW = 300,
       !.clientHeight = 300, !.clientWidth = 500, !.hasHeaders = TRUE,
       !.hasContainer = TRUE, !.lead = TRUE, !.testIdCols = {2},
       !.blank = {<<1, 3>>}, !.initLeft = 700],
    \* maxScrollLeft is a multiple of the horizontal step
    [NoGrid EXCEPT !.nRows = 2, !.nCols = 4, !.rowH = 100, !.colW = 275,
       !.clientHeight = 300, !.clientWidth = 500, !.hasHeaders = TRUE,
       !.hasContainer = TRUE, !.lead = TRUE, !.dup = TRUE],
    \* scrollable by 2 units vertically and 10 units horizontally
    [NoGrid EXCEPT !.nRows = 2, !.nCols = 2, !.rowH = 151, !.colW = 255,
       !.clientHeight = 300, !.clientWidth = 500, !.hasHeaders = TRUE,
       !.hasContainer = TRUE, !.lead = TRUE, !.spacer = TRUE, !.initTop = 1,
       !.initLeft = 10],
    \* scrollable by 1 unit vertically and 11 units horizontally
    [NoGrid EXCEPT !.nRows = 1, !.nCols = 1, !.rowH = 301, !.colW = 511,
       !.clientHeight = 300, !.clientWidth = 500, !.hasHeaders = TRUE,
       !.hasContainer = TRUE, !.lead = TRUE],
    \* the last advance moves the position by exactly 2 units
    [NoGrid EXCEPT !.nRows = 2, !.nCols = 2, !.rowH = 241, !.colW = 250,
       !.clientHeight = 300, !.clientWidth = 500, !.hasHeaders = TRUE,
       !.hasContainer = TRUE, !.lead = TRUE],
    \* a cell of the last row holds an SVG link; the row is not in view at
    \* the top
    [NoGrid EXCEPT !.nRows = 4, !.nCols = 2, !.rowH = 100, !.colW = 250,
       !.clientHeight = 200, !.clientWidth = 500, !.hasHeaders = TRUE,
       !.hasContainer = TRUE, !.lead = TRUE, !.svg = {<<4, 1>>}],
    \* no scroll container
    [NoGrid EXCEPT !.nRows = 4, !.nCols = 2, !.rowH = 100, !.colW = 250,
       !.clientHeight = 300, !.clientWidth = 500, !.hasHeaders = TRUE,
       !.lead = TRUE],
    \* no header cells
    [NoGrid EXCEPT !.nRows = 4, !.nCols = 2, !.rowH = 100, !.colW = 250,
       !.clientHeight = 300, !.clientWidth = 500, !.hasContainer = TRUE,
       !.lead = TRUE] }

\* The pages on which overlapping calls are explored
OverlapGrids ==
  { \* scrollable by 30 units vertically and 10 units horizontally
    [NoGrid EXCEPT !.nRows = 3, !.nCols = 2, !.rowH = 110, !.colW = 255,
       !.clientHeight = 300, !.clientWidth = 500, !.hasHeaders = TRUE,
       !.hasContainer = TRUE, !.lead = TRUE, !.dup = TRUE, !.initTop = 10,
       !.initLeft = 5],
    \* no scroll container
    [NoGrid EXCEPT !.nRows = 4, !.nCols = 2, !.rowH = 100, !.colW = 250,
       !.clientHeight = 300, !.clientWidth = 500, !.hasHeaders = TRUE,
       !.lead = TRUE] }

\* The pages on which the service worker is explored
StoreGrids ==
  { \* 3 rows x 2 columns, 2 rows in view
    [NoGrid EXCEPT !.nRows = 3, !.nCols = 2, !.rowH = 100, !.colW = 250,
       !.clientHeight = 200, !.clientWidth = 500, !.hasHeaders = TRUE,
       !.hasContainer = TRUE, !.lead = TRUE],
    \* no header cells
    [NoGrid EXCEPT !.nRows = 3, !.nCols = 2, !.rowH = 100, !.colW = 250,
       !.clientHeight = 200, !.clientWidth = 500, !.hasContainer = TRUE,
       !.lead = TRUE] }

\* ------------------------------------------------------------------------
\* State
\* ------------------------------------------------------------------------

VARIABLES
  grid,        \* the page the content script runs in
  scrollTop,   \* scrollContainer.scrollTop
  scrollLeft,  \* scrollContainer.scrollLeft
  run,         \* the content script's scrape calls, one record per call
  acc,         \* RowMerger: the accumulator of a sequence of mergeRows calls
  pass,        \* RowMerger: the last incoming pass
  table,       \* RowMerger: the last convertRowsMapToArray result
  capturedData, \* background.js: the service worker's store
  response,    \* background.js: the last response the service worker sent
  capture,     \* background.js: history of handleApiCapture
  exported,    \* background.js: the export or copy the service worker runs
  popup,       \* popup.js: the range field and what the last click did
  doc,         \* a table and the CSV and JSON documents generated from it
  parsing,     \* background.js: a JSON value and what the parsers made of it
  copies,      \* background.js, offscreen.js: the COPY_CLIPBOARD calls in flight
  unanswered   \* background.js: a USE_API_DATA call has ended without sendResponse

vars ==
  <<grid, scrollTop, scrollLeft, run, acc, pass, table, capturedData, response,
    capture, exported, popup, doc, parsing, copies, unanswered>>

pageVars == <<grid, scrollTop, scrollLeft, run>>

mergeVars == <<acc, pass, table>>

storeVars == <<capturedData, response, capture>>

exportVars == <<exported, popup, doc, copies>>

Runs == 1..MaxRuns

NoResult ==
  [success |-> FALSE, headers |-> << >>, rows |-> << >>, rowCount |-> 0,
   method |-> "", error |-> ""]

\* pc: "idle" (no call), "sleepH" (await after scrollLeft = hPos),
\* "sleepTop" (await after scrollTop = 0), "sleepV" (await after
\* scrollTop += verticalStep), "done" (the promise has resolved).
\* startTop, startLeft, hVisited, obs, moves, seenRows are history: the
\* scroll position when the call began, the horizontal offsets assigned so
\* far, the positions read after the last advances of the current sweep
\* (at most StableLimit + 1 of them), by how much each of the last advances
\* (at most StableLimit) moved the position and how many advances the sweep
\* has made, and the grid rows that were in the document at an extraction;
\* cleared tells that CLEAR_DATA was handled while the call was in flight.
IdleRun ==
  [pc |-> "idle", action |-> "", labels |-> << >>, fieldIds |-> << >>,
   origScrollTop |-> 0, origScrollLeft |-> 0, hPositions |-> << >>,
   hIdx |-> 0, prevScrollTop |-> 0, stableCount |-> 0, allRows |-> << >>,
   result |-> NoResult,
   startTop |-> 0, startLeft |-> 0, hVisited |-> << >>, obs |-> << >>,
   moves |-> << >>, advances |-> 0, before |-> 0, seenRows |-> {},
   cleared |-> FALSE]

\* ------------------------------------------------------------------------
\* content.js SECTION 6/7: scrapeVisibleRows, scrapeAllRowsByScrolling
\* ------------------------------------------------------------------------

\* Math.max(clientHeight * 0.6, 150)
VerticalStep(g) == Max((g.clientHeight * 6) \div 10, MinVerticalStep)

\* Math.max(clientWidth * 0.6, 300)
HorizontalStep(g) == Max((g.clientWidth * 6) \div 10, MinHorizontalStep)

RECURSIVE HPosLoop(_, _, _, _)
HPosLoop(hPositions, hPos, step, maxScrollLeft) ==
  IF hPos < maxScrollLeft
  THEN HPosLoop(Append(hPositions, hPos), hPos + step, step, maxScrollLeft)
  ELSE Append(hPositions, maxScrollLeft)

\* Mutation of HPositions: the right edge is not pushed after the loop.
HPositionsNoEdge(maxScrollLeft, horizontalStep) ==
  IF maxScrollLeft > HorizontalThreshold
  THEN SubSeq(HPosLoop(<<0>>, horizontalStep, horizontalStep, maxScrollLeft), 1,
              Len(HPosLoop(<<0>>, horizontalStep, horizontalStep, maxScrollLeft)) - 1)
  ELSE <<0>>

\* "Build list of horizontal positions to scan"
HPositions(maxScrollLeft, horizontalStep) ==
  IF maxScrollLeft > HorizontalThreshold
  THEN HPosLoop(<<0>>, horizontalStep, horizontalStep, maxScrollLeft)
  ELSE <<0>>

ErrorResult(msg) == [NoResult EXCEPT !.error = msg]

TypeErrorMessage == "href.includes is not a function"

SuccessResult(labels, rows, method) ==
  [success |-> TRUE, headers |-> labels, rows |-> rows, rowCount |-> Len(rows),
   method |-> method, error |-> ""]

\* scrapeVisibleRows: no await inside, so it runs to its result in one step
scrapeVisibleRows(g, top, left) ==
  LET h == extractHeaders(g)
  IN IF ~h.ok THEN ErrorResult("Could not find Clay table headers")
     ELSE IF extractThrows(Render(g, top, left), h.fieldIds)
     THEN ErrorResult(TypeErrorMessage)
     ELSE SuccessResult(h.labels,
            convertRowsMapToArray(
              extractRenderedRows(Render(g, top, left), h.fieldIds), h.fieldIds),
            "dom_visible")

\* SCRAPE_VISIBLE arrives: the listener calls scrapeVisibleRows()
ScrapeVisible(i) ==
  /\ run[i].pc = "idle"
  /\ \A j \in Runs : j < i => run[j].pc # "idle"
  /\ run' = [run EXCEPT ![i] =
       [IdleRun EXCEPT !.pc = "done", !.action = "SCRAPE_VISIBLE",
          !.startTop = scrollTop, !.startLeft = scrollLeft,
          !.seenRows = IF grid.hasHeaders THEN VisibleRows(grid, scrollTop) ELSE {},
          !.result = scrapeVisibleRows(grid, scrollTop, scrollLeft)]]
  /\ UNCHANGED <<grid, scrollTop, scrollLeft, mergeVars, exportVars, storeVars, parsing, unanswered>>

\* Mutation of ScrapeAllStart: no test of the scroll container, the
\* traversal begins on any page with header cells.
ScrapeAllStartNoFallback(i) ==
  /\ run[i].pc = "idle"
  /\ \A j \in Runs : j < i => run[j].pc # "idle"
  /\ LET h == extractHeaders(grid)
         hPositions == HPositions(MaxScrollLeft(grid), HorizontalStep(grid))
         begun == [IdleRun EXCEPT !.action = "SCRAPE_ALL",
                     !.startTop = scrollTop, !.startLeft = scrollLeft]
     IN IF ~h.ok
        THEN /\ run' = [run EXCEPT ![i] =
                  [begun EXCEPT !.pc = "done",
                     !.result = ErrorResult("Could not find Clay table headers")]]
             /\ UNCHANGED <<scrollTop, scrollLeft>>
        ELSE /\ run' = [run EXCEPT ![i] =
                  [begun EXCEPT !.pc = "sleepH",
                     !.labels = h.labels, !.fieldIds = h.fieldIds,
                     !.origScrollTop = scrollTop, !.origScrollLeft = scrollLeft,
                     !.hPositions = hPositions, !.hIdx = 1,
                     !.hVisited = <<hPositions[1]>>]]
             /\ scrollLeft' = Clamp(hPositions[1], MaxScrollLeft(grid))
             /\ UNCHANGED scrollTop
  /\ UNCHANGED <<grid, mergeVars, exportVars, storeVars, parsing, unanswered>>

\* SCRAPE_ALL arrives: scrapeAllRowsByScrolling() up to its first await
ScrapeAllStart(i) ==
  /\ run[i].pc = "idle"
  /\ \A j \in Runs : j < i => run[j].pc # "idle"
  /\ LET h == extractHeaders(grid)
         hPositions == HPositions(MaxScrollLeft(grid), HorizontalStep(grid))
         begun == [IdleRun EXCEPT !.action = "SCRAPE_ALL",
                     !.startTop = scrollTop, !.startLeft = scrollLeft]
     IN IF ~h.ok
        THEN /\ run' = [run EXCEPT ![i] =
                  [begun EXCEPT !.pc = "done",
                     !.result = ErrorResult("Could not find Clay table headers")]]
             /\ UNCHANGED <<scrollTop, scrollLeft>>
        ELSE IF ~grid.hasContainer
        THEN /\ run' = [run EXCEPT ![i] =
                  [begun EXCEPT !.pc = "done",
                     !.seenRows = VisibleRows(grid, scrollTop),
                     !.result = scrapeVisibleRows(grid, scrollTop, scrollLeft)]]
             /\ UNCHANGED <<scrollTop, scrollLeft>>
        ELSE /\ run' = [run EXCEPT ![i] =
                  [begun EXCEPT !.pc = "sleepH",
                     !.labels = h.labels, !.fieldIds = h.fieldIds,
                     !.origScrollTop = scrollTop, !.origScrollLeft = scrollLeft,
                     !.hPositions = hPositions, !.hIdx = 1,
                     !.hVisited = <<hPositions[1]>>]]
             /\ scrollLeft' = Clamp(hPositions[1], MaxScrollLeft(grid))
             /\ UNCHANGED scrollTop
  /\ UNCHANGED <<grid, mergeVars, exportVars, storeVars, parsing, unanswered>>

\* The first sleep(200) of an offset elapses: "Scroll to top"
AfterSleepH(i) ==
  /\ run[i].pc = "sleepH"
  /\ scrollTop' = 0
  /\ run' = [run EXCEPT ![i].pc = "sleepTop"]
  /\ UNCHANGED <<grid, scrollLeft, mergeVars, exportVars, storeVars, parsing, unanswered>>

\* The body of the while loop up to its await: capture, merge, scroll down
SweepBody(r, top, left) ==
  [r EXCEPT
     !.allRows = mergeRows(@, extractRenderedRows(Render(grid, top, left), r.fieldIds)),
     !.pc = "sleepV",
     !.before = top,
     !.seenRows = @ \cup VisibleRows(grid, top)]

\* An extraction has thrown inside the try block: the catch clause makes
\* the error result
Caught(r) == [r EXCEPT !.pc = "done", !.result = ErrorResult(TypeErrorMessage)]

\* The second sleep(200) elapses: the sweep's variables are set and the
\* loop is entered
AfterSleepTop(i) ==
  /\ run[i].pc = "sleepTop"
  /\ LET entered == [run[i] EXCEPT !.prevScrollTop = InitialPrev,
                       !.stableCount = 0, !.obs = << >>, !.moves = << >>,
                       !.advances = 0]
     IN IF extractThrows(Render(grid, scrollTop, scrollLeft), run[i].fieldIds)
        THEN /\ run' = [run EXCEPT ![i] = Caught(entered)]
             /\ UNCHANGED scrollTop
        ELSE /\ run' = [run EXCEPT ![i] = SweepBody(entered, scrollTop, scrollLeft)]
             /\ scrollTop' = Clamp(scrollTop + VerticalStep(grid), MaxScrollTop(grid))
  /\ UNCHANGED <<grid, scrollLeft, mergeVars, exportVars, storeVars, parsing, unanswered>>

\* Mutation of StableAfter: no reading counts as stable.
StableAfterNever(stableCount, observed, prevScrollTop) == 0

\* Mutation of StableAfter: every reading counts as stable.
StableAfterAlways(stableCount, observed, prevScrollTop) == stableCount + 1

\* Mutation of StableAfter: a change of exactly 2 units counts as stable.
StableAfterInclusive(stableCount, observed, prevScrollTop) ==
  IF Abs(observed - prevScrollTop) <= StableDelta THEN stableCount + 1 ELSE 0

\* if (Math.abs(scrollTop - prevScrollTop) < 2) stableCount++ else = 0
StableAfter(stableCount, observed, prevScrollTop) ==
  IF Abs(observed - prevScrollTop) < StableDelta THEN stableCount + 1 ELSE 0

\* scrollContainer.scrollTop = origScrollTop
RestoreTop(orig, current) == Clamp(orig, MaxScrollTop(grid))

\* The sleep(200) after an advance elapses: the convergence test, then the
\* next pass of the loop, the next horizontal offset, or the end of the call
AfterSleepV(i) ==
  /\ run[i].pc = "sleepV"
  /\ LET r == run[i]
         stable == StableAfter(r.stableCount, scrollTop, r.prevScrollTop)
         checked == [r EXCEPT !.stableCount = stable, !.prevScrollTop = scrollTop,
                       !.obs = LastN(Append(@, scrollTop), StableLimit + 1),
                       !.moves = LastN(Append(@, Abs(scrollTop - r.before)), StableLimit),
                       !.advances = Min(@ + 1, StableLimit + 1)]
     IN IF stable < StableLimit
             /\ extractThrows(Render(grid, scrollTop, scrollLeft), r.fieldIds)
        THEN /\ run' = [run EXCEPT ![i] = Caught(checked)]
             /\ UNCHANGED <<scrollTop, scrollLeft>>
        ELSE IF stable < StableLimit
        THEN /\ run' = [run EXCEPT ![i] = SweepBody(checked, scrollTop, scrollLeft)]
             /\ scrollTop' = Clamp(scrollTop + VerticalStep(grid), MaxScrollTop(grid))
             /\ UNCHANGED scrollLeft
        ELSE IF r.hIdx < Len(r.hPositions)
        THEN /\ run' = [run EXCEPT ![i] =
                  [checked EXCEPT !.pc = "sleepH", !.hIdx = r.hIdx + 1,
                     !.hVisited = Append(@, r.hPositions[r.hIdx + 1])]]
             /\ scrollLeft' = Clamp(r.hPositions[r.hIdx + 1], MaxScrollLeft(grid))
             /\ UNCHANGED scrollTop
        ELSE /\ run' = [run EXCEPT ![i] =
                  [checked EXCEPT !.pc = "done",
                     !.result = SuccessResult(r.labels,
                                  convertRowsMapToArray(r.allRows, r.fieldIds),
                                  "dom_scroll")]]
             /\ scrollTop' = RestoreTop(r.origScrollTop, scrollTop)
             /\ scrollLeft' = Clamp(r.origScrollLeft, MaxScrollLeft(grid))
  /\ UNCHANGED <<grid, mergeVars, exportVars, storeVars, parsing, unanswered>>

\* While the call is suspended in the sleep(200) after an advance, the page
\* or its user scrolls the container to the top or to the bottom
PageScrolls ==
  /\ \E i \in Runs : run[i].pc = "sleepV"
  /\ \E top \in {0, MaxScrollTop(grid)} :
       /\ top # scrollTop
       /\ scrollTop' = top
  /\ UNCHANGED <<grid, scrollLeft, run, mergeVars, exportVars, storeVars, parsing, unanswered>>

\* sendResponse has delivered the result and the call's state is dropped
Respond(i) ==
  /\ run[i].pc = "done"
  /\ run' = [run EXCEPT ![i] = IdleRun]
  /\ UNCHANGED <<grid, scrollTop, scrollLeft, mergeVars, exportVars, storeVars, parsing, unanswered>>

\* ------------------------------------------------------------------------
\* background.js: the capture store and its message router
\* ------------------------------------------------------------------------

\* if (capturedData.apiResponses.length > 100)
MaxResponses == 100

\* let capturedData = {...}; capturedAt is kept as "has been stamped"
\* (Date.now() is read by no handler), tableMeta is written by
\* fetchTableMeta only.
EmptyCaptured ==
  [apiResponses |-> << >>, parsedTable |-> NullTable, method |-> "null",
   capturedAt |-> FALSE, sourceUrl |-> "null"]

\* A sendResponse of the service worker: {ok: true}, or {success, rowCount,
\* method, error}; the headers and rows of a successful response are those
\* of its table.
NoResponse ==
  [sent |-> FALSE, ok |-> FALSE, success |-> FALSE, rowCount |-> 0,
   method |-> "", error |-> ""]

Ack == [NoResponse EXCEPT !.sent = TRUE, !.ok = TRUE]

Failure(msg) == [NoResponse EXCEPT !.sent = TRUE, !.error = msg]

Success(rowCount, method) ==
  [NoResponse EXCEPT !.sent = TRUE, !.success = TRUE, !.rowCount = rowCount,
     !.method = method]

\* History of handleApiCapture: count is the number of API_DATA_CAPTURED
\* messages handled since the start or the last CLEAR_DATA, clock the last
\* time read by relayData (in units in which no two responses share a
\* time, from 0 for an empty buffer), dropped the entries the last call
\* has sliced off.
NoCapture == [count |-> 0, clock |-> 0, dropped |-> << >>]

\* Mutation of AddResponse: every response is put before the others.
AddResponseInFront(responses, payload) == <<payload>> \o responses

\* unshift(payload) for a response flagged as table data, push(payload)
\* for any other
AddResponse(responses, payload) ==
  IF payload.hasTableData
  THEN <<payload>> \o responses
  ELSE Append(responses, payload)

\* Mutation of CapResponses: the buffer is never cut.
CapResponsesNever(responses) == responses

\* if (length > 100) apiResponses = apiResponses.slice(0, 100)
CapResponses(responses) ==
  IF Len(responses) > MaxResponses
  THEN SubSeq(responses, 1, MaxResponses)
  ELSE responses

\* What the slice leaves out
Dropped(responses, payload) ==
  SubSeq(AddResponse(responses, payload),
         Len(CapResponses(AddResponse(responses, payload))) + 1,
         Len(AddResponse(responses, payload)))

\* Mutation of handleApiCapture: the auto-parse reads the buffer as it was
\* before the response was put in.
handleApiCaptureStale(c, payload) ==
  LET capped == CapResponses(AddResponse(c.apiResponses, payload))
      kept == [c EXCEPT !.apiResponses = capped, !.sourceUrl = ClayUrl]
      parsed == parseApiResponsesToTable(c.apiResponses)
  IN IF ~payload.hasTableData
     THEN [ok |-> TRUE, store |-> kept]
     ELSE IF ~parsed.ok
     THEN [ok |-> FALSE, store |-> kept]
     ELSE [ok |-> TRUE,
           store |->
             IF /\ ~parsed.table.null
                /\ Len(parsed.table.rows) > 0
                /\ \/ c.parsedTable.null
                   \/ Len(parsed.table.rows) >= Len(c.parsedTable.rows)
             THEN [kept EXCEPT !.parsedTable = parsed.table,
                               !.method = "api", !.capturedAt = TRUE]
             ELSE kept]

\* handleApiCapture(payload, tab) on the store c: the store after the call;
\* ok = FALSE stands for a throw of the parse.
handleApiCapture(c, payload) ==
  LET capped == CapResponses(AddResponse(c.apiResponses, payload))
      kept == [c EXCEPT !.apiResponses = capped, !.sourceUrl = ClayUrl]
      parsed == parseApiResponsesToTable(capped)
  IN IF ~payload.hasTableData
     THEN [ok |-> TRUE, store |-> kept]
     ELSE IF ~parsed.ok
     THEN [ok |-> FALSE, store |-> kept]
     ELSE [ok |-> TRUE,
           store |->
             IF /\ ~parsed.table.null
                /\ Len(parsed.table.rows) > 0
                /\ \/ c.parsedTable.null
                   \/ Len(parsed.table.rows) >= Len(c.parsedTable.rows)
             THEN [kept EXCEPT !.parsedTable = parsed.table,
                               !.method = "api", !.capturedAt = TRUE]
             ELSE kept]

\* API_DATA_CAPTURED: handleApiCapture(payload, sender.tab), then
\* sendResponse({ok: true}) unless the parse has thrown
ApiDataCaptured ==
  \E data \in Payloads :
    LET payload == Stamped(data, capture.clock + 1)
        handled == handleApiCapture(capturedData, payload)
    IN /\ capture.count < MaxCaptures
       /\ capturedData' = handled.store
       /\ response' = IF handled.ok THEN Ack ELSE response
       /\ capture' = [count |-> capture.count + 1,
                      clock |-> capture.clock + 1,
                      dropped |-> Dropped(capturedData.apiResponses, payload)]
       /\ UNCHANGED <<pageVars, mergeVars, exportVars, parsing, unanswered>>

\* capturedData.apiResponses.slice(0, 5)
UrlSample == 5

NoResponsesMessage ==
  "No API responses captured yet. Navigate to a Clay table, reload the page (Ctrl+R), then try again."

\* The debug info of handleUseApiData about the responses it could not map
NotMappedMessage(responses) ==
  LET withTableData ==
        Len(SelectSeq(responses, LAMBDA r : r.hasTableData))
      urls ==
        Join([i \in 1..Min(UrlSample, Len(responses)) |-> responses[i].url], ", ")
  IN "Captured " \o ToString(Len(responses)) \o " API responses ("
     \o ToString(withTableData)
     \o " with table-like data) but could not map to table columns. URLs: "
     \o urls \o ". Try DOM scraping instead."

\* USE_API_DATA: handleUseApiData(sendResponse); a throw of the parse leaves
\* the message without a response
UseApiData ==
  /\ LET parsed == parseApiResponsesToTable(capturedData.apiResponses)
     IN IF Len(capturedData.apiResponses) = 0
        THEN /\ response' = Failure(NoResponsesMessage)
             /\ UNCHANGED capturedData
        ELSE IF ~parsed.ok
        THEN UNCHANGED <<capturedData, response>>
        ELSE IF ~parsed.table.null /\ Len(parsed.table.rows) > 0
        THEN /\ capturedData' =
                  [capturedData EXCEPT !.parsedTable = parsed.table,
                                       !.method = "api", !.capturedAt = TRUE]
             /\ response' = Success(Len(parsed.table.rows), "api")
        ELSE /\ response' = Failure(NotMappedMessage(capturedData.apiResponses))
             /\ UNCHANGED capturedData
  /\ unanswered' =
       (\/ unanswered
        \/ /\ Len(capturedData.apiResponses) > 0
           /\ ~parseApiResponsesToTable(capturedData.apiResponses).ok)
  /\ UNCHANGED <<pageVars, mergeVars, exportVars, capture, parsing>>

\* SCRAPE_VISIBLE / SCRAPE_ALL while no tab is active or the active tab is
\* not a Clay page: forwardToContentScript answers with an error
ForwardRefused ==
  /\ \E msg \in {"No active tab found", "Not on a Clay.com page"} :
       response' = Failure(msg)
  /\ UNCHANGED <<pageVars, mergeVars, exportVars, capturedData, capture, parsing, unanswered>>

\* chrome.tabs.sendMessage resolves with the content script's result: the
\* rest of forwardToContentScript
ForwardResult(i) ==
  /\ run[i].pc = "done"
  /\ LET result == run[i].result
     IN IF result.success
        THEN /\ capturedData' =
                  [capturedData EXCEPT
                     !.parsedTable = Table(result.headers, result.rows),
                     !.method = result.method, !.capturedAt = TRUE,
                     !.sourceUrl = ClayUrl]
             /\ response' = Success(result.rowCount, result.method)
        ELSE /\ response' = Failure(result.error)
             /\ UNCHANGED capturedData
  /\ run' = [run EXCEPT ![i] = IdleRun]
  /\ UNCHANGED <<grid, scrollTop, scrollLeft, mergeVars, exportVars, capture, parsing, unanswered>>

\* CLEAR_DATA
ClearData ==
  /\ capturedData' = EmptyCaptured
  /\ response' = Ack
  /\ capture' = NoCapture
  /\ run' = [i \in Runs |->
               IF run[i].pc = "idle" THEN run[i]
               ELSE [run[i] EXCEPT !.cleared = TRUE]]
  /\ UNCHANGED <<grid, scrollTop, scrollLeft, mergeVars, exportVars, parsing,
                 unanswered>>

\* ------------------------------------------------------------------------
\* The row merger on its own: a new Map, any number of mergeRows calls with
\* incoming passes, convertRowsMapToArray
\* ------------------------------------------------------------------------

\* Rows in one incoming pass
MaxPassLen == 2

MergeFields == {"f1", "f2"}

\* The cells Maps of incoming rows: f1 absent, empty or one of two values;
\* f2 absent or a value
PassCells ==
  UNION {[S -> {"", "x", "y"}] : S \in SUBSET {"f1"}}
  \cup {CellsSet(c, "f2", "z") :
          c \in UNION {[S -> {"", "x", "y"}] : S \in SUBSET {"f1"}}}

\* Incoming rows: rowA at index 1, rowB at index 0 or 1 (an index below and
\* an index equal to that of an earlier key)
PassRows ==
  {[id |-> "rowA", index |-> 1, cells |-> c] : c \in PassCells}
  \cup {[id |-> "rowB", index |-> i, cells |-> c] :
          i \in {0, 1}, c \in {EmptyCells, CellsSet(EmptyCells, "f1", "x")}}

\* A pass is a Map: its keys are distinct
Passes ==
  {s \in UNION {[1..n -> PassRows] : n \in 0..MaxPassLen} :
     \A i, j \in DOMAIN s : i # j => s[i].id # s[j].id}

\* The fieldIds given to convertRowsMapToArray: in either order, and with a
\* field no row has
FieldIdLists == {<<"f1", "f2">>, <<"f2", "f1">>, <<"f1", "f3">>}

NoTable == [done |-> FALSE, fieldIds |-> << >>, rows |-> << >>]

\* mergeRows(allRows, rendered)
MergePass ==
  /\ ~table.done
  /\ \E source \in Passes :
       /\ acc' = mergeRows(acc, source)
       /\ pass' = source
  /\ UNCHANGED <<pageVars, storeVars, exportVars, parsing, table, unanswered>>

\* convertRowsMapToArray(allRows, fieldIds)
Convert ==
  /\ ~table.done
  /\ \E fieldIds \in FieldIdLists :
       table' = [done |-> TRUE, fieldIds |-> fieldIds,
                 rows |-> convertRowsMapToArray(acc, fieldIds)]
  /\ UNCHANGED <<pageVars, storeVars, exportVars, parsing, acc, pass, unanswered>>

\* const allRows = new Map()
NewMap ==
  /\ table.done
  /\ acc' = << >>
  /\ pass' = << >>
  /\ table' = NoTable
  /\ UNCHANGED <<pageVars, storeVars, exportVars, parsing, unanswered>>

\* ------------------------------------------------------------------------
\* background.js: File Export, Clipboard
\* ------------------------------------------------------------------------

\* The range of a message: null, or {start, end}
NoRange == [null |-> TRUE, start |-> 0, end |-> 0]

Range1(start, end) == [null |-> FALSE, start |-> start, end |-> end]

\* Array.prototype.slice(begin, end)
Slice(arr, begin, end) ==
  LET from == IF begin < 0 THEN Max(Len(arr) + begin, 0) ELSE Min(begin, Len(arr))
      to == IF end < 0 THEN Max(Len(arr) + end, 0) ELSE Min(end, Len(arr))
  IN IF to > from THEN SubSeq(arr, from + 1, to) ELSE << >>

\* Mutation of applyRange: the start is taken as a 0-based index.
applyRangeZeroBased(rows, range) ==
  IF range.null THEN rows ELSE Slice(rows, range.start, range.end)

\* if (!range) return rows; return rows.slice(range.start - 1, range.end)
applyRange(rows, range) ==
  IF range.null THEN rows ELSE Slice(rows, range.start - 1, range.end)

\* buildSmartFilename(format, range) while no table metadata is stored
buildSmartFilename(format, range) ==
  "clay-export"
  \o (IF range.null THEN ""
      ELSE "_rows" \o ToString(range.start) \o "-" \o ToString(range.end))
  \o "." \o format

\* The export or copy in progress: pc is "idle" or "pending" (the handler
\* awaits the download or the offscreen document's answer); headers and
\* rows are those the content was generated from.
NoExport ==
  [pc |-> "idle", action |-> "", format |-> "", range |-> NoRange,
   headers |-> << >>, rows |-> << >>, filename |-> ""]

\* message.format: COPY_CLIPBOARD carries one, "" stands for none
Formats(action) ==
  IF action = "COPY_CLIPBOARD" THEN {"", "csv", "json"} ELSE {""}

\* The largest row number of a range
MaxRowNumber == 4

Ranges ==
  {NoRange} \cup
  {Range1(start, end) : start \in 1..MaxRowNumber, end \in 1..MaxRowNumber}

ExportActions == {"EXPORT_CSV", "EXPORT_JSON", "COPY_CLIPBOARD"}

\* The format the router passes on
FormatOf(action, format) ==
  IF action = "EXPORT_CSV" THEN "csv"
  ELSE IF action = "EXPORT_JSON" THEN "json"
  ELSE IF format = "json" THEN "json" ELSE "csv"

Done(action) == [NoResponse EXCEPT !.sent = TRUE, !.success = TRUE]

\* Mutation of ExportStart: the rows are cut out of the stored array
\* (splice in place of slice).
ExportStartInPlace(action, format, range) ==
  /\ exported.pc = "idle"
  /\ IF capturedData.parsedTable.null
     THEN /\ response' = Failure("No data captured yet")
          /\ exported' = NoExport
          /\ UNCHANGED capturedData
     ELSE /\ exported' =
               [pc |-> "pending", action |-> action,
                format |-> FormatOf(action, format), range |-> range,
                headers |-> capturedData.parsedTable.headers,
                rows |-> applyRange(capturedData.parsedTable.rows, range),
                filename |-> IF action = "COPY_CLIPBOARD" THEN ""
                             ELSE buildSmartFilename(FormatOf(action, format), range)]
          /\ capturedData' =
               [capturedData EXCEPT !.parsedTable.rows =
                  applyRange(capturedData.parsedTable.rows, range)]
          /\ UNCHANGED response
  /\ UNCHANGED <<pageVars, mergeVars, capture, popup, doc, parsing, copies, unanswered>>

\* EXPORT_CSV, EXPORT_JSON, COPY_CLIPBOARD arrive: exportAsFile or
\* copyToClipboard up to its first await
ExportStart(action, format, range) ==
  /\ exported.pc = "idle"
  /\ IF capturedData.parsedTable.null
     THEN /\ response' = Failure("No data captured yet")
          /\ exported' = NoExport
     ELSE /\ exported' =
               [pc |-> "pending", action |-> action,
                format |-> FormatOf(action, format), range |-> range,
                headers |-> capturedData.parsedTable.headers,
                rows |-> applyRange(capturedData.parsedTable.rows, range),
                filename |-> IF action = "COPY_CLIPBOARD" THEN ""
                             ELSE buildSmartFilename(FormatOf(action, format), range)]
          /\ UNCHANGED response
  /\ UNCHANGED <<pageVars, mergeVars, capturedData, capture, popup, doc, parsing, copies, unanswered>>

\* How the awaited call ends: the download starts or is refused; the
\* offscreen document cannot be made, reports the copy done or failed, or
\* does not answer within 5000 ms
Outcomes(action) ==
  IF action = "COPY_CLIPBOARD"
  THEN {"copied", "copy_failed", "timed_out", "no_offscreen"}
  ELSE {"started", "refused"}

ErrorOf(outcome) ==
  IF outcome = "refused" THEN "Download failed"
  ELSE IF outcome = "copy_failed" THEN "Clipboard copy failed"
  ELSE IF outcome = "timed_out" THEN "Clipboard error: Clipboard copy timed out"
  ELSE "Clipboard error"

\* The await ends: the rest of exportAsFile or copyToClipboard
ExportSettled ==
  /\ exported.pc = "pending"
  /\ \E outcome \in Outcomes(exported.action) :
       response' = IF outcome \in {"started", "copied"}
                   THEN Done(exported.action)
                   ELSE Failure(ErrorOf(outcome))
  /\ exported' = NoExport
  /\ UNCHANGED <<pageVars, mergeVars, capturedData, capture, popup, doc, parsing, copies, unanswered>>

\* ------------------------------------------------------------------------
\* background.js: Clipboard (via Offscreen Document), and offscreen.js
\* ------------------------------------------------------------------------

\* COPY_CLIPBOARD messages in one behaviour
MaxCopies == 2

Copies == 1..MaxCopies

\* The text of a copy: what generateCSV or generateJSON makes of the headers
\* and rows in the format
CopyText(format, headers, rows) ==
  [format |-> format, headers |-> headers, rows |-> rows]

NoText == CopyText("", << >>, << >>)

\* A copyToClipboard call of the service worker: pc is "idle" (no call),
\* "ensuring" (await ensureOffscreenDocument()), "waiting" (await of the
\* promise: listener added, timeout set, OFFSCREEN_COPY sent) or "answered"
\* (the call has ended). responses are the arguments of its sendResponse
\* calls. History: resolvedBy is the call whose OFFSCREEN_COPY the result
\* that resolved the promise was produced for.
NoCopy ==
  [pc |-> "idle", text |-> NoText, responses |-> << >>, resolvedBy |-> 0]

\* calls: the copyToClipboard calls; listeners: the calls whose listener is
\* added to chrome.runtime.onMessage; inbox: the OFFSCREEN_COPY messages the
\* offscreen document has not finished; results: the OFFSCREEN_COPY_RESULT
\* messages on their way to the service worker; written: the text in the
\* clipboard.
NoCopies ==
  [calls |-> [i \in Copies |-> NoCopy], listeners |-> {}, inbox |-> << >>,
   results |-> << >>, written |-> NoText]

Without(s, k) == [i \in 1..(Len(s) - 1) |-> IF i < k THEN s[i] ELSE s[i + 1]]

\* COPY_CLIPBOARD arrives: copyToClipboard up to its first await
CopyStart(i, format, range) ==
  /\ copies.calls[i].pc = "idle"
  /\ \A j \in Copies : j < i => copies.calls[j].pc # "idle"
  /\ IF capturedData.parsedTable.null
     THEN /\ copies' = [copies EXCEPT !.calls[i] =
                 [NoCopy EXCEPT !.pc = "answered",
                    !.responses = <<Failure("No data captured yet")>>]]
          /\ response' = Failure("No data captured yet")
     ELSE /\ copies' = [copies EXCEPT !.calls[i] =
                 [NoCopy EXCEPT !.pc = "ensuring",
                    !.text = CopyText(FormatOf("COPY_CLIPBOARD", format),
                               capturedData.parsedTable.headers,
                               applyRange(capturedData.parsedTable.rows, range))]]
          /\ UNCHANGED response
  /\ UNCHANGED <<pageVars, mergeVars, capturedData, capture, exported, popup,
                 doc, parsing, unanswered>>

\* ensureOffscreenDocument() has settled: it has thrown, or the promise is
\* made: setTimeout, addListener, sendMessage OFFSCREEN_COPY
CopyEnsured(i) ==
  /\ copies.calls[i].pc = "ensuring"
  /\ \/ /\ copies' = [copies EXCEPT
                 !.calls[i].pc = "answered",
                 !.calls[i].responses = Append(@, Failure(ErrorOf("no_offscreen")))]
        /\ response' = Failure(ErrorOf("no_offscreen"))
     \/ /\ copies' = [copies EXCEPT
                 !.calls[i].pc = "waiting",
                 !.listeners = @ \cup {i},
                 !.inbox = Append(@, [text |-> copies.calls[i].text, of |-> i])]
        /\ UNCHANGED response
  /\ UNCHANGED <<pageVars, mergeVars, capturedData, capture, exported, popup,
                 doc, parsing, unanswered>>

\* offscreen.js copyToClipboard(text) ends for one of the messages received:
\* the text is written and success reported, or both ways of writing have
\* thrown and the failure is reported
OffscreenCopies ==
  /\ \E k \in DOMAIN copies.inbox, success \in BOOLEAN :
       copies' = [copies EXCEPT
          !.inbox = Without(@, k),
          !.written = IF success THEN copies.inbox[k].text ELSE @,
          !.results = Append(@, [success |-> success,
                                 error |-> IF success THEN "" ELSE "copy failed",
                                 of |-> copies.inbox[k].of])]
  /\ UNCHANGED <<pageVars, mergeVars, storeVars, exported, popup, doc, parsing, unanswered>>

\* What copyToClipboard answers when its promise has resolved with msg
CopyResponse(msg) ==
  IF msg.success THEN Done("COPY_CLIPBOARD")
  ELSE Failure(IF msg.error # "" THEN msg.error ELSE ErrorOf("copy_failed"))

\* An OFFSCREEN_COPY_RESULT reaches the service worker: every listener that
\* is added is called with it, clears its timeout, removes itself and
\* resolves its promise; a call that awaits its promise then answers
ResultDelivered ==
  /\ copies.results # << >>
  /\ LET msg == Head(copies.results)
         resolved == {i \in copies.listeners : copies.calls[i].pc = "waiting"}
     IN /\ copies' = [copies EXCEPT
               !.results = Tail(@),
               !.listeners = {},
               !.calls = [i \in Copies |->
                            IF i \in resolved
                            THEN [@[i] EXCEPT !.pc = "answered",
                                    !.responses = Append(@, CopyResponse(msg)),
                                    !.resolvedBy = msg.of]
                            ELSE @[i]]]
        /\ response' = IF resolved = {} THEN response ELSE CopyResponse(msg)
  /\ UNCHANGED <<pageVars, mergeVars, capturedData, capture, exported, popup,
                 doc, parsing, unanswered>>

\* The 5000 ms timeout of a call fires: the promise is rejected and the
\* catch clause answers; the listener stays added
CopyTimesOut(i) ==
  /\ copies.calls[i].pc = "waiting"
  /\ copies' = [copies EXCEPT
       !.calls[i].pc = "answered",
       !.calls[i].responses = Append(@, Failure(ErrorOf("timed_out")))]
  /\ response' = Failure(ErrorOf("timed_out"))
  /\ UNCHANGED <<pageVars, mergeVars, capturedData, capture, exported, popup,
                 doc, parsing, unanswered>>

\* ------------------------------------------------------------------------
\* popup.js: Row Range Parsing, Button Handlers
\* Text the popup reads is a sequence of characters.
\* ------------------------------------------------------------------------

Digits == {"0", "1", "2", "3", "4", "5", "6", "7", "8", "9"}

Spaces == {" "}

DigitValue(c) == CHOOSE n \in 0..9 : ToString(n) = c

\* The value of a run of decimal digits
RECURSIVE Decimal(_)
Decimal(ds) ==
  IF Len(ds) = 0 THEN 0
  ELSE 10 * Decimal(SubSeq(ds, 1, Len(ds) - 1)) + DigitValue(ds[Len(ds)])

\* The number of characters of s from position i on that are in chars, up
\* to the first that is not
RECURSIVE RunLength(_, _, _)
RunLength(s, i, chars) ==
  IF i <= Len(s) /\ s[i] \in chars THEN 1 + RunLength(s, i + 1, chars) ELSE 0

\* The number of characters at the end of s that are spaces
RECURSIVE TrailingSpaces(_)
TrailingSpaces(s) ==
  IF Len(s) > 0 /\ s[Len(s)] \in Spaces
  THEN 1 + TrailingSpaces(SubSeq(s, 1, Len(s) - 1))
  ELSE 0

\* String.prototype.trim
Trim(s) ==
  IF RunLength(s, 1, Spaces) = Len(s) THEN << >>
  ELSE SubSeq(s, RunLength(s, 1, Spaces) + 1, Len(s) - TrailingSpaces(s))

\* parseInt(s, 10): leading white space, a sign, then the digits up to the
\* first character that is not one; NaN when there is no digit there
parseInt(s) ==
  LET from == RunLength(s, 1, Spaces) + 1
      signed == from <= Len(s) /\ s[from] \in {"-", "+"}
      first == IF signed THEN from + 1 ELSE from
      n == RunLength(s, first, Digits)
      value == Decimal(SubSeq(s, first, first + n - 1))
  IN IF n = 0 THEN [nan |-> TRUE, value |-> 0]
     ELSE [nan |-> FALSE,
           value |-> IF signed /\ s[from] = "-" THEN 0 - value ELSE value]

\* trimmed.match(/^(\d+)\s*-\s*(\d+)$/): digits and white space are
\* disjoint, so the greedy match is the only one
RangeMatch(trimmed) ==
  LET n1 == RunLength(trimmed, 1, Digits)
      dash == n1 + RunLength(trimmed, n1 + 1, Spaces) + 1
      second == dash + RunLength(trimmed, dash + 1, Spaces) + 1
      n2 == RunLength(trimmed, second, Digits)
  IN IF /\ n1 > 0
        /\ dash <= Len(trimmed)
        /\ trimmed[dash] = "-"
        /\ n2 > 0
        /\ second + n2 - 1 = Len(trimmed)
     THEN [matched |-> TRUE, first |-> SubSeq(trimmed, 1, n1),
           second |-> SubSeq(trimmed, second, Len(trimmed))]
     ELSE [matched |-> FALSE, first |-> << >>, second |-> << >>]

\* What parseRowRange does: it returns a range (null for all rows) or
\* throws an Error with a message.
Returned(range) == [threw |-> FALSE, range |-> range, error |-> ""]

Thrown(message) == [threw |-> TRUE, range |-> NoRange, error |-> message]

\* Mutation of parseRowRange: the end is not compared with totalRows.
parseRowRangeNoEndCheck(input, totalRows) ==
  LET trimmed == Trim(input)
      match == RangeMatch(trimmed)
      single == parseInt(trimmed)
      start == parseInt(match.first).value
      end == parseInt(match.second).value
  IN IF Len(trimmed) = 0 THEN Returned(NoRange)
     ELSE IF ~match.matched
     THEN IF ~single.nan /\ single.value >= 1 /\ single.value <= totalRows
          THEN Returned(Range1(single.value, single.value))
          ELSE Thrown("Invalid range. Use format: 1-25")
     ELSE IF start < 1 THEN Thrown("Start row must be at least 1")
     ELSE IF start > end THEN Thrown("Start must be less than or equal to end")
     ELSE Returned(Range1(start, end))

\* The message of the first throw quotes the trimmed text, which is left
\* out here.
parseRowRange(input, totalRows) ==
  LET trimmed == Trim(input)
      match == RangeMatch(trimmed)
      single == parseInt(trimmed)
      start == parseInt(match.first).value
      end == parseInt(match.second).value
  IN IF Len(trimmed) = 0 THEN Returned(NoRange)
     ELSE IF ~match.matched
     THEN IF ~single.nan /\ single.value >= 1 /\ single.value <= totalRows
          THEN Returned(Range1(single.value, single.value))
          ELSE Thrown("Invalid range. Use format: 1-25")
     ELSE IF start < 1 THEN Thrown("Start row must be at least 1")
     ELSE IF end > totalRows
     THEN Thrown("End row can't exceed " \o ToString(totalRows))
     ELSE IF start > end THEN Thrown("Start must be less than or equal to end")
     ELSE Returned(Range1(start, end))

\* The popup: the text of the range field, the row count it shows, and what
\* the last click did: pc is "idle", "sent" (chrome.runtime.sendMessage was
\* called with message) or "logged" (the catch clause logged the error).
NoMessage == [action |-> "", format |-> "", range |-> NoRange]

NoPopup ==
  [pc |-> "idle", input |-> << >>, totalRows |-> 0, message |-> NoMessage,
   log |-> ""]

\* The longest text typed into the range field
MaxInputLen == 4

\* The largest row count the popup shows
MaxTotalRows == 2

InputChars == {"0", "1", "2", "-", " ", "x"}

Inputs == UNION {[1..n -> InputChars] : n \in 0..MaxInputLen}

\* getSelectedFormat()
SelectedFormats == {"csv", "json"}

\* A click on Download or on Copy: getRangeOrError(), then sendMessage
\* unless it has thrown
Click(button, format) ==
  /\ popup.pc = "idle"
  /\ LET parsed == parseRowRange(popup.input, popup.totalRows)
         action == IF button = "btn-copy" THEN "COPY_CLIPBOARD"
                   ELSE IF format = "csv" THEN "EXPORT_CSV" ELSE "EXPORT_JSON"
     IN popup' =
          IF parsed.threw
          THEN [popup EXCEPT !.pc = "logged", !.log = parsed.error]
          ELSE [popup EXCEPT !.pc = "sent",
                  !.message = [action |-> action,
                               format |-> IF button = "btn-copy" THEN format ELSE "",
                               range |-> parsed.range]]
  /\ UNCHANGED <<pageVars, mergeVars, storeVars, exported, doc, parsing, copies, unanswered>>

\* The response arrives, or the error has been logged: the handler ends
ClickEnds ==
  /\ popup.pc # "idle"
  /\ popup' = [popup EXCEPT !.pc = "idle", !.message = NoMessage, !.log = ""]
  /\ UNCHANGED <<pageVars, mergeVars, storeVars, exported, doc, parsing, copies, unanswered>>

\* ------------------------------------------------------------------------
\* background.js: CSV / JSON Generation
\* A text is a sequence of characters; a row is a sequence of texts.
\* ------------------------------------------------------------------------

Quote == "\""

Comma == ","

CR == "\r"

LF == "\n"

\* '\uFEFF', one character
BOM == "BOM"

\* row[i]: undefined beyond the end of the row; String(val ?? '')
TextAt(row, i) == IF i \in DOMAIN row THEN row[i] ELSE << >>

\* str.replace(/"/g, '""')
RECURSIVE DoubleQuotes(_)
DoubleQuotes(str) ==
  IF Len(str) = 0 THEN << >>
  ELSE (IF Head(str) = Quote THEN <<Quote, Quote>> ELSE <<Head(str)>>)
       \o DoubleQuotes(Tail(str))

\* Mutation of escape: the quotes inside the text are not doubled.
escapeUndoubled(str) == <<Quote>> \o str \o <<Quote>>

\* const escape = val => '"' + str.replace(/"/g, '""') + '"'
escape(str) == <<Quote>> \o DoubleQuotes(str) \o <<Quote>>

\* Array.prototype.join on texts
RECURSIVE JoinTexts(_, _)
JoinTexts(texts, sep) ==
  IF Len(texts) = 0 THEN << >>
  ELSE IF Len(texts) = 1 THEN texts[1]
  ELSE texts[1] \o sep \o JoinTexts(Tail(texts), sep)

\* buildSearchMetadata(): null, or the entries of the result object in
\* order, each a key and a value
NoMetadata == [null |-> TRUE, entries |-> << >>]

Metadata(entries) == [null |-> FALSE, entries |-> entries]

\* '"--- SEARCH PARAMETERS ---"'
ParametersMarker ==
  <<Quote, "-", "-", "-", " ", "S", "E", "A", "R", "C", "H", " ", "P", "A",
    "R", "A", "M", "E", "T", "E", "R", "S", " ", "-", "-", "-", Quote>>

\* '"---"'
EndMarker == <<Quote, "-", "-", "-", Quote>>

\* The lines pushed before the header row when there is metadata
MetadataLines(metadata) ==
  IF metadata.null THEN << >>
  ELSE <<ParametersMarker>>
       \o [e \in DOMAIN metadata.entries |->
             escape(metadata.entries[e].key) \o <<Comma>>
             \o escape(metadata.entries[e].val)]
       \o <<EndMarker, << >> >>

\* Mutation of generateCSV: a data line is row.map(escape).join(',').
generateCSVUnpadded(headers, rows, metadata) ==
  <<BOM>> \o
  JoinTexts(
    MetadataLines(metadata)
    \o <<JoinTexts([i \in DOMAIN headers |-> escape(headers[i])], <<Comma>>)>>
    \o [r \in DOMAIN rows |->
          JoinTexts([i \in DOMAIN rows[r] |-> escape(rows[r][i])], <<Comma>>)],
    <<CR, LF>>)

\* generateCSV(headers, rows); the metadata is what buildSearchMetadata()
\* returns
generateCSV(headers, rows, metadata) ==
  <<BOM>> \o
  JoinTexts(
    MetadataLines(metadata)
    \o <<JoinTexts([i \in DOMAIN headers |-> escape(headers[i])], <<Comma>>)>>
    \o [r \in DOMAIN rows |->
          JoinTexts([i \in DOMAIN headers |-> escape(TextAt(rows[r], i))],
                    <<Comma>>)],
    <<CR, LF>>)

\* A JavaScript object with text keys: its own keys in enumeration order
\* and their values
EmptyObject == [keys |-> << >>, vals |-> << >>]

\* A canonical array index: decimal digits without a leading zero
IsArrayIndex(key) ==
  /\ Len(key) > 0
  /\ \A k \in DOMAIN key : key[k] \in Digits
  /\ Len(key) > 1 => key[1] # "0"

\* Where a new key goes in the enumeration order: array indices first, in
\* ascending order, then the other keys in order of creation
InsertAt(obj, key) ==
  IF IsArrayIndex(key)
  THEN 1 + Cardinality({k \in DOMAIN obj.keys :
                          /\ IsArrayIndex(obj.keys[k])
                          /\ Decimal(obj.keys[k]) < Decimal(key)})
  ELSE Len(obj.keys) + 1

InsertInto(s, at, x) == SubSeq(s, 1, at - 1) \o <<x>> \o SubSeq(s, at, Len(s))

\* obj[key] = val
SetProp(obj, key, val) ==
  IF \E k \in DOMAIN obj.keys : obj.keys[k] = key
  THEN [obj EXCEPT !.vals =
          [k \in DOMAIN obj.vals |-> IF obj.keys[k] = key THEN val ELSE @[k]]]
  ELSE [keys |-> InsertInto(obj.keys, InsertAt(obj, key), key),
        vals |-> InsertInto(obj.vals, InsertAt(obj, key), val)]

\* headers.forEach((h, i) => { obj[h] = row[i] ?? '' }) from column i on
RECURSIVE RecordFrom(_, _, _, _)
RecordFrom(headers, row, i, obj) ==
  IF i > Len(headers) THEN obj
  ELSE RecordFrom(headers, row, i + 1, SetProp(obj, headers[i], TextAt(row, i)))

\* generateJSON(headers, rows): the value that is stringified, which is
\* the array of records, or the wrapper object with _searchParameters and
\* data
generateJSON(headers, rows, metadata) ==
  [wrapped |-> ~metadata.null,
   searchParameters |-> metadata.entries,
   records |-> [r \in DOMAIN rows |-> RecordFrom(headers, rows[r], 1, EmptyObject)]]

\* The tables and metadata the generators are applied to
CellChars == {"a", Quote, Comma}

\* The longest text of the one-cell rows
MaxCellLen == 1

Texts == UNION {[1..n -> CellChars] : n \in 0..MaxCellLen}

HeaderLists ==
  { << <<"a">> >>,
    << <<"a">>, <<"b">> >>,
    << <<"a">>, <<"a">> >>,
    << <<"b", Quote>>, <<Comma, "a">> >>,
    << <<"1">>, <<"a">>, <<"0">> >> }

RowSamples ==
  {<<text>> : text \in Texts}
  \cup
  { << >>,
    << <<"a", LF>>, <<"b">> >>,
    << << >>, <<CR, LF>> >>,
    << <<Quote, Quote>>, <<"a", Comma, Quote>> >>,
    << <<"a">>, <<"b">>, <<"c">> >>,
    << <<"a">>, <<"b">>, << >>, <<Quote>> >> }

\* The most rows of a table
MaxDocRows == 2

RowLists == UNION {[1..n -> RowSamples] : n \in 0..MaxDocRows}

MetadataSamples ==
  { NoMetadata,
    Metadata(<< [key |-> <<"T", "a", "b", "l", "e", " ", "N", "a", "m", "e">>,
                 val |-> <<"T", Quote>>],
                [key |-> <<"S", "o", "u", "r", "c", "e">>,
                 val |-> <<"s", Comma>>] >>) }

\* pc is "idle", "table" (a table has been stored), "csv" or "json" (the
\* document has been generated)
NoDoc ==
  [pc |-> "idle", headers |-> << >>, rows |-> << >>, metadata |-> NoMetadata,
   csv |-> << >>, json |-> generateJSON(<< >>, << >>, NoMetadata)]

\* generateCSV(headers, rows) is called
GenerateCsv ==
  /\ doc.pc = "table"
  /\ doc' = [doc EXCEPT !.pc = "csv",
               !.csv = generateCSV(doc.headers, doc.rows, doc.metadata)]
  /\ UNCHANGED <<pageVars, mergeVars, storeVars, exported, popup, parsing, copies, unanswered>>

\* generateJSON(headers, rows) is called
GenerateJson ==
  /\ doc.pc = "table"
  /\ doc' = [doc EXCEPT !.pc = "json",
               !.json = generateJSON(doc.headers, doc.rows, doc.metadata)]
  /\ UNCHANGED <<pageVars, mergeVars, storeVars, exported, popup, parsing, copies, unanswered>>

\* ------------------------------------------------------------------------
\* background.js: flattenValue and findAllTableArrays on one JSON value
\* ------------------------------------------------------------------------

\* pc is "idle", "value" (a value has arrived), "flattened" or "searched"
NoParsed == [pc |-> "idle", val |-> JNull, flat |-> "", found |-> << >>]

\* What a response stores under a key
Stored ==
  { JNull, JStr("s"), JStr(""), JNum(7), JBool(TRUE), JArr(<< >>),
    JArr(<<JStr("a"), JNull, JNum(2)>>),
    JArr(<<JObj(<<"text">>, <<JStr("t")>>), JStr("u")>>),
    JObj(<<"value">>, <<JStr("v")>>),
    JObj(<<"phone">>, <<JNum(5)>>),
    JObj(<<"a", "b">>, <<JNum(1), JNull>>),
    JObj(<<"a", "b", "c", "d", "e">>,
         <<JNum(1), JStr("x"), JNull, JBool(FALSE), JArr(<<JNum(2)>>)>>) }

\* Objects that have one or two of the keys flattenValue looks for
Enriched ==
  { JObj(<<k>>, <<v>>) : k \in Range(FlattenedKeys \o StringKeys), v \in Stored }
  \cup { JObj(<<"id", k[1], k[2]>>, <<JNum(0), JStr("1"), JNull>>) :
           k \in { kk \in Range(FlattenedKeys \o StringKeys)
                            \X Range(FlattenedKeys \o StringKeys) :
                     kk[1] # kk[2] } }

\* Items of the arrays findAllTableArrays meets
MaxItems == 6

FirstItem == JObj(<<"a", "b", "c", "d">>, <<JNum(1), JNum(2), JNum(3), JNum(4)>>)

\* An item that has the first n keys of FirstItem and 4 - n other keys
Sharing(n) ==
  JObj([i \in 1..4 |-> IF i <= n THEN FirstItem.keys[i] ELSE "k" \o ToString(i)],
       [i \in 1..4 |-> JStr("x")])

OddItems ==
  { Sharing(n) : n \in 0..4 }
  \cup { JNull, JNum(3), JStr("a"), JArr(<<JNum(1), JNum(2)>>),
         JObj(<<"a">>, <<JNum(1)>>), JObj(<<"a", "b">>, <<JNum(1), JNum(2)>>) }

\* v inside n objects
RECURSIVE Nest(_, _)
Nest(v, n) == IF n = 0 THEN v ELSE JObj(<<"data">>, <<Nest(v, n - 1)>>)

\* A qualifying array that holds, two levels inside it, another one
InnerRows == <<Sharing(2)>>

DeepTable ==
  JArr(<<FirstItem,
         JObj(<<"a", "b", "rows">>, <<JNum(1), JNum(2), JArr(InnerRows)>>)>>)

Arrays ==
  { JArr([i \in 1..len |-> IF i = at THEN odd ELSE FirstItem]) :
      len \in 1..MaxItems, at \in 1..MaxItems, odd \in OddItems }
  \cup { JArr(<<JObj(<<"a", "b", "c">>, <<JNum(1), JNum(2), JNum(3)>>),
               JObj(SubSeq(<<"a", "b", "x">>, 1, n), [i \in 1..n |-> JNull])>>) :
           n \in 0..3 }
  \cup { Nest(JArr(<<FirstItem, JObj(<<"rows">>, <<JArr(<<Sharing(2)>>)>>)>>), n) :
           n \in 0..(MaxDepth + 2) }
  \cup { Nest(DeepTable, n) : n \in 0..(MaxDepth + 2) }
  \cup { JArr(<<JNum(1), JNum(2), JNum(3),
               JObj(<<"rows">>, <<JArr(<<FirstItem, FirstItem>>)>>)>>) }
  \cup { JArr(<< >>), JArr(<<JArr(<<FirstItem>>), JArr(<<JNull, FirstItem>>)>>) }

\* JUndefined is what item[h] reads for a header the item does not have
Values == Stored \cup Enriched \cup Arrays \cup {JUndefined}

\* flattenValue(val) is called
Flatten ==
  /\ parsing.pc = "value"
  /\ parsing' = [parsing EXCEPT !.pc = "flattened", !.flat = flattenValue(parsing.val)]
  /\ UNCHANGED <<pageVars, mergeVars, storeVars, exportVars, unanswered>>

\* findAllTableArrays(data) is called
FindArrays ==
  /\ parsing.pc = "value"
  /\ parsing' = [parsing EXCEPT !.pc = "searched",
                  !.found = findAllTableArrays(parsing.val, 0, << >>)]
  /\ UNCHANGED <<pageVars, mergeVars, storeVars, exportVars, unanswered>>

\* ------------------------------------------------------------------------
\* Initial states and specifications
\* ------------------------------------------------------------------------

InitPage(G) ==
  /\ grid \in G
  /\ scrollTop = grid.initTop
  /\ scrollLeft = grid.initLeft
  /\ run = [i \in Runs |-> IdleRun]

InitMergeIdle ==
  /\ acc = << >>
  /\ pass = << >>
  /\ table = NoTable

InitStoreIdle ==
  /\ capturedData = EmptyCaptured
  /\ response = NoResponse
  /\ capture = NoCapture

InitExportIdle ==
  /\ exported = NoExport
  /\ popup = NoPopup
  /\ doc = NoDoc
  /\ parsing = NoParsed
  /\ copies = NoCopies
  /\ unanswered = FALSE

\* SpecSweep: the calls of one popup, which awaits each response before it
\* sends the next message (popup.js awaits chrome.runtime.sendMessage).
InitSweep == InitPage(Grids) /\ InitMergeIdle /\ InitStoreIdle /\ InitExportIdle

NextSweep ==
  \/ ScrapeVisible(1)
  \/ ScrapeAllStart(1)
  \/ AfterSleepH(1)
  \/ AfterSleepTop(1)
  \/ AfterSleepV(1)
  \/ Respond(1)

SpecSweep == InitSweep /\ [][NextSweep]_vars

\* SpecTraverse: up to MaxRuns messages, each of which may arrive while
\* earlier calls are suspended in a settle delay (the listener starts a call
\* for every message).
InitTraverse == InitPage(OverlapGrids) /\ InitMergeIdle /\ InitStoreIdle /\ InitExportIdle

NextTraverse ==
  \E i \in Runs :
    \/ ScrapeVisible(i)
    \/ ScrapeAllStart(i)
    \/ AfterSleepH(i)
    \/ AfterSleepTop(i)
    \/ AfterSleepV(i)

SpecTraverse == InitTraverse /\ [][NextTraverse]_vars

\* SpecStore: the service worker with one popup and one Clay tab.  API
\* responses arrive at any time; the popup's scrape requests are forwarded
\* one at a time.
InitStore == InitPage(StoreGrids) /\ InitMergeIdle /\ InitStoreIdle /\ InitExportIdle

NextStore ==
  \/ ApiDataCaptured
  \/ UseApiData
  \/ ClearData
  \/ ForwardRefused
  \/ ScrapeVisible(1)
  \/ ScrapeAllStart(1)
  \/ AfterSleepH(1)
  \/ AfterSleepTop(1)
  \/ AfterSleepV(1)
  \/ ForwardResult(1)

SpecStore == InitStore /\ [][NextStore]_vars

\* SpecBuffer: the service worker after a session in which the page has
\* received Backlog responses, one short of the cap.  The sessions differ
\* in which of the responses were flagged as table data.
Backlog == MaxResponses - 1

TabularPayload == CHOOSE p \in Payloads : p.url = "/v3/views"

OtherPayload == CHOOSE p \in Payloads : p.url = "/v3/status"

TabularTimes ==
  { {}, {1}, {Backlog}, {1, 2, Backlog - 1, Backlog}, 1..10,
    {t \in 1..Backlog : t % 4 = 0} }

Arrivals(times) ==
  [t \in 1..Backlog |->
     Stamped(IF t \in times THEN TabularPayload ELSE OtherPayload, t)]

Reverse(s) == [i \in 1..Len(s) |-> s[Len(s) + 1 - i]]

\* The store handleApiCapture leaves after fewer than 100 arrivals of these
\* two payloads: each flagged response was put in front of the buffer and
\* parsed with it, every other one was put behind.
StoreAfter(arrivals) ==
  LET flagged == SelectSeq(arrivals, LAMBDA p : p.hasTableData)
      others == SelectSeq(arrivals, LAMBDA p : ~p.hasTableData)
      kept == [EmptyCaptured EXCEPT !.apiResponses = Reverse(flagged) \o others,
                                    !.sourceUrl = ClayUrl]
  IN IF Len(flagged) = 0 THEN kept
     ELSE [kept EXCEPT
             !.parsedTable = parseApiResponsesToTable(kept.apiResponses).table,
             !.method = "api", !.capturedAt = TRUE]

InitBuffer ==
  /\ InitPage({NoGrid})
  /\ InitMergeIdle
  /\ \E times \in TabularTimes :
       capturedData = StoreAfter(Arrivals(times))
  /\ response = Ack
  /\ capture = [NoCapture EXCEPT !.clock = Backlog]
  /\ InitExportIdle

NextBuffer == ApiDataCaptured \/ UseApiData \/ ClearData

SpecBuffer == InitBuffer /\ [][NextBuffer]_vars

\* SpecExport: the service worker while API responses arrive and the popup
\* asks for downloads and copies, one at a time.
InitExport == InitPage({NoGrid}) /\ InitMergeIdle /\ InitStoreIdle /\ InitExportIdle

NextExport ==
  \/ ApiDataCaptured
  \/ ClearData
  \/ \E action \in ExportActions, range \in Ranges :
       \E format \in Formats(action) : ExportStart(action, format, range)
  \/ ExportSettled

SpecExport == InitExport /\ [][NextExport]_vars

\* SpecRange: the popup with any text in the range field and any row count
InitRange ==
  /\ InitPage({NoGrid})
  /\ InitMergeIdle
  /\ InitStoreIdle
  /\ exported = NoExport
  /\ doc = NoDoc
  /\ parsing = NoParsed
  /\ copies = NoCopies
  /\ unanswered = FALSE
  /\ \E input \in Inputs, totalRows \in 0..MaxTotalRows :
       popup = [NoPopup EXCEPT !.input = input, !.totalRows = totalRows]

NextRange ==
  \/ \E button \in {"btn-download", "btn-copy"}, format \in SelectedFormats :
       Click(button, format)
  \/ ClickEnds

SpecRange == InitRange /\ [][NextRange]_vars

\* SpecDoc: the two generators on any of the tables
InitDoc ==
  /\ InitPage({NoGrid})
  /\ InitMergeIdle
  /\ InitStoreIdle
  /\ exported = NoExport
  /\ popup = NoPopup
  /\ parsing = NoParsed
  /\ copies = NoCopies
  /\ unanswered = FALSE
  /\ \E headers \in HeaderLists, rows \in RowLists, metadata \in MetadataSamples :
       doc = [NoDoc EXCEPT !.pc = "table", !.headers = headers, !.rows = rows,
                !.metadata = metadata]

NextDoc == GenerateCsv \/ GenerateJson

SpecDoc == InitDoc /\ [][NextDoc]_vars

\* SpecValue: the two parsers on any of the values
InitValue ==
  /\ InitPage({NoGrid})
  /\ InitMergeIdle
  /\ InitStoreIdle
  /\ exported = NoExport
  /\ popup = NoPopup
  /\ doc = NoDoc
  /\ copies = NoCopies
  /\ unanswered = FALSE
  /\ \E val \in Values : parsing = [NoParsed EXCEPT !.pc = "value", !.val = val]

NextValue == Flatten \/ FindArrays

SpecValue == InitValue /\ [][NextValue]_vars

\* SpecParse: the store after a batch of responses has arrived, on a page
\* that has or has not been scraped before; then USE_API_DATA, one more
\* API_DATA_CAPTURED or CLEAR_DATA.
MaxBatch == 2

Item(keys, vals) == JObj(keys, [i \in DOMAIN vals |-> JNum(vals[i])])

ParsePayloads ==
  { \* {data: {items: [{id: 1, name: "A", __typename: "X"}, {id: 2, ...}]}}
    Payload("/v3/items",
      JObj(<<"data">>,
           <<JObj(<<"items">>,
                  <<JArr([i \in 1..2 |->
                            JObj(<<"id", "name", "__typename">>,
                                 <<JNum(i), JStr(<<"A", "B">>[i]), JStr("X")>>)])>>)>>)),
    \* two arrays of two items in one response
    Payload("/v3/pair",
      JObj(<<"first", "second">>,
           <<JArr(<<Item(<<"x", "y">>, <<1, 2>>), Item(<<"x", "y">>, <<3, 4>>)>>),
             JArr(<<Item(<<"p", "q">>, <<5, 6>>), Item(<<"p", "q">>, <<7, 8>>)>>)>>)),
    \* three items that have metadata keys only
    Payload("/v3/edges",
      JObj(<<"edges">>,
           <<JArr([i \in 1..3 |->
                     JObj(<<"cursor", "node">>,
                          <<JStr("c"), Item(<<"id", "n">>, <<i, i>>)>>)])>>)),
    \* items with different keys and an array value
    Payload("/v3/ragged",
      JArr(<<Item(<<"u", "v">>, <<1, 2>>),
             JObj(<<"u", "w">>, <<JNum(3), JArr(<<JStr("a"), JStr("b")>>)>>)>>)),
    \* a null after the first five items
    CHOOSE p \in Payloads : p.url = "/v3/sparse",
    \* no array
    CHOOSE p \in Payloads : p.url = "/v3/status",
    \* a number and a string after the first five items
    Payload("/v3/mixed",
      JArr([i \in 1..7 |->
              IF i <= 5 THEN Item(<<"a", "b">>, <<i, i>>)
              ELSE IF i = 6 THEN JNum(7) ELSE JStr("s")])),
    \* an array of three items that containsTableData does not reach
    Payload("/v3/hidden",
      JArr(<<JNum(1), JNum(2), JNum(3),
             JObj(<<"rows">>,
                  <<JArr([i \in 1..3 |-> Item(<<"m", "n">>, <<i, i>>)])>>)>>)),
    \* eleven items, each with a key of its own
    Payload("/v3/wide",
      JArr([i \in 1..(HeaderSample + 1) |->
              Item(<<"id", "c" \o ToString(i)>>, <<i, i>>)])) }

\* Any batch of up to MaxBatch responses, and two batches of more responses
\* than handleUseApiData lists URLs of
Batches ==
  UNION {[1..n -> ParsePayloads] : n \in 0..MaxBatch}
  \cup { [i \in 1..(UrlSample + 1) |->
            CHOOSE p \in ParsePayloads : p.url = IF i = at THEN "/v3/edges"
                                                 ELSE "/v3/status"] :
           at \in {0, UrlSample + 1} }

\* handleApiCapture for each of arrivals[i..] in turn
RECURSIVE CaptureAll(_, _, _)
CaptureAll(c, arrivals, i) ==
  IF i > Len(arrivals) THEN c
  ELSE CaptureAll(handleApiCapture(c, Stamped(arrivals[i], i)).store,
                  arrivals, i + 1)

\* The store after a SCRAPE_ALL that has found one row
ScrapedStore ==
  [EmptyCaptured EXCEPT !.parsedTable = Table(<<"Name">>, << <<"Ann">> >>),
                        !.method = "dom_scroll", !.capturedAt = TRUE,
                        !.sourceUrl = ClayUrl]

InitParse ==
  /\ InitPage({NoGrid})
  /\ InitMergeIdle
  /\ \E arrivals \in Batches, start \in {EmptyCaptured, ScrapedStore} :
       /\ capturedData = CaptureAll(start, arrivals, 1)
       /\ capture = [NoCapture EXCEPT !.count = MaxCaptures - 1,
                                      !.clock = Len(arrivals)]
  /\ response = NoResponse
  /\ InitExportIdle

NextParse == ApiDataCaptured \/ UseApiData \/ ClearData

SpecParse == InitParse /\ [][NextParse]_vars

\* SpecRestless: one SCRAPE_ALL at a time on a page that is scrolled by
\* others while the call sleeps. Each sleep(200) ends: the timer fires and
\* the call resumes.
RestlessGrids ==
  { [NoGrid EXCEPT !.nRows = 1, !.nCols = 1, !.rowH = 400, !.colW = 250,
       !.clientHeight = 200, !.clientWidth = 500, !.hasHeaders = TRUE,
       !.hasContainer = TRUE, !.lead = TRUE, !.initTop = top] :
      top \in {0, 100, 200} }

InitRestless ==
  InitPage(RestlessGrids) /\ InitMergeIdle /\ InitStoreIdle /\ InitExportIdle

NextRestless ==
  \/ ScrapeAllStart(1)
  \/ AfterSleepH(1)
  \/ AfterSleepTop(1)
  \/ AfterSleepV(1)
  \/ Respond(1)
  \/ PageScrolls

SpecRestless ==
  /\ InitRestless
  /\ [][NextRestless]_vars
  /\ WF_vars(AfterSleepH(1))
  /\ WF_vars(AfterSleepTop(1))
  /\ WF_vars(AfterSleepV(1))

\* SpecSettled: one SCRAPE_ALL at a time on a page that nothing else
\* scrolls: the container clamps every position it is given, and each
\* sleep(200) ends (the timer fires and the call resumes).
SettledGrids ==
  { [NoGrid EXCEPT !.nRows = 1, !.nCols = cols, !.rowH = 400, !.colW = width,
       !.clientHeight = 200, !.clientWidth = 500, !.hasHeaders = TRUE,
       !.hasContainer = TRUE, !.lead = TRUE, !.initTop = top] :
      cols \in {1, 3}, width \in {250, 500}, top \in {0, 100, 200} }

InitSettled ==
  InitPage(SettledGrids) /\ InitMergeIdle /\ InitStoreIdle /\ InitExportIdle

NextSettled ==
  \/ ScrapeAllStart(1)
  \/ AfterSleepH(1)
  \/ AfterSleepTop(1)
  \/ AfterSleepV(1)
  \/ Respond(1)

SpecSettled ==
  /\ InitSettled
  /\ [][NextSettled]_vars
  /\ WF_vars(AfterSleepH(1))
  /\ WF_vars(AfterSleepTop(1))
  /\ WF_vars(AfterSleepV(1))

\* SpecCopy: the service worker with a stored table, a stored table and a
\* response in the buffer, or nothing stored, while up to MaxCopies
\* COPY_CLIPBOARD messages and USE_API_DATA messages arrive; a message may
\* arrive while earlier calls await (the listener starts a call for each).
CopyStoreTable == Table(<<"Name">>, << <<"Ann">>, <<"Bob">> >>)

CopyStores ==
  { EmptyCaptured,
    [ScrapedStore EXCEPT !.parsedTable = CopyStoreTable],
    CaptureAll([ScrapedStore EXCEPT !.parsedTable = CopyStoreTable],
               <<CHOOSE p \in Payloads : p.url = "/v3/sparse">>, 1) }

CopyRanges == {NoRange, Range1(1, 1), Range1(2, 2)}

InitCopy ==
  /\ InitPage({NoGrid})
  /\ InitMergeIdle
  /\ capturedData \in CopyStores
  /\ response = NoResponse
  /\ capture = NoCapture
  /\ InitExportIdle

NextCopy ==
  \/ \E i \in Copies, format \in Formats("COPY_CLIPBOARD"), range \in CopyRanges :
       CopyStart(i, format, range)
  \/ \E i \in Copies : CopyEnsured(i)
  \/ OffscreenCopies
  \/ ResultDelivered
  \/ \E i \in Copies : CopyTimesOut(i)
  \/ UseApiData

SpecCopy == InitCopy /\ [][NextCopy]_vars

\* SpecMerge: the row merger, with no page behind it
InitMerge == InitPage({NoGrid}) /\ InitMergeIdle /\ InitStoreIdle /\ InitExportIdle

NextMerge == MergePass \/ Convert \/ NewMap

SpecMerge == InitMerge /\ [][NextMerge]_vars

\* ------------------------------------------------------------------------
\* Properties of the traversal
\* ------------------------------------------------------------------------

InProgress(r) == r.pc \in {"sleepH", "sleepTop", "sleepV"}

\* The call found the scroll container (it built its offset list)
FoundContainer(r) == r.hIdx >= 1

\* C3: at most one grid traversal is in progress at any time.
AtMostOneTraversal ==
  Cardinality({i \in Runs : InProgress(run[i])}) <= 1

\* C4: on a grid whose cells are all non-empty, a complete
\* scrapeAllRowsByScrolling run returns one header per column and one row
\* per grid row, with no empty cell.
CompleteTable ==
  \A i \in Runs :
    (run[i].pc = "done" /\ run[i].result.method = "dom_scroll" /\ grid.blank = {})
      => /\ Len(run[i].result.headers) = grid.nCols
         /\ Len(run[i].result.rows) = grid.nRows
         /\ \A k \in DOMAIN run[i].result.rows :
              \A c \in DOMAIN run[i].result.rows[k] :
                run[i].result.rows[k][c] # ""

\* C5: the table of a traversal holds exactly one row per distinct grid row
\* that was in the document at one of its extractions, however often the row
\* was rendered; while the traversal runs, the accumulator holds exactly one
\* entry per such row.
OneRowPerGridRow ==
  \A i \in Runs :
    /\ InProgress(run[i]) =>
         \A g \in 1..grid.nRows :
           Cardinality({k \in DOMAIN run[i].allRows : run[i].allRows[k].index = g - 1})
             = IF g \in run[i].seenRows THEN 1 ELSE 0
    /\ (run[i].pc = "done" /\ run[i].result.success) =>
         Len(run[i].result.rows) = Cardinality(run[i].seenRows)

\* C5 witness: a finished traversal over two horizontal offsets whose rows
\* were each present as two elements and in several passes.
OneRowPerGridRowWitness ==
  \E i \in Runs :
    /\ run[i].pc = "done" /\ run[i].result.method = "dom_scroll"
    /\ grid.dup /\ Len(run[i].hPositions) >= 2
    /\ Cardinality(run[i].seenRows) >= 2
    /\ Len(run[i].result.rows) = Cardinality(run[i].seenRows)

\* C8: the horizontal offsets start with 0 and increase strictly; when
\* maxScrollLeft > 10 they contain every multiple of the horizontal step
\* below maxScrollLeft and end with maxScrollLeft, and nothing else; when
\* maxScrollLeft <= 10 they are exactly <<0>>; the offsets are assigned once
\* each, in list order.
HorizontalOffsets ==
  \A i \in Runs :
    FoundContainer(run[i]) =>
      LET hp == run[i].hPositions
          m == MaxScrollLeft(grid)
          st == HorizontalStep(grid)
      IN /\ hp[1] = 0
         /\ \A k \in 1..(Len(hp) - 1) : hp[k] < hp[k + 1]
         /\ m <= 10 => hp = <<0>>
         /\ m > 10 =>
              /\ hp[Len(hp)] = m
              /\ \A k \in 1..m : (k * st < m) => (k * st) \in Range(hp)
              /\ \A k \in DOMAIN hp :
                   hp[k] = 0 \/ hp[k] = m \/ (hp[k] < m /\ hp[k] % st = 0)
         /\ run[i].hVisited = SubSeq(hp, 1, run[i].hIdx)
         /\ (run[i].pc = "done" /\ run[i].result.success) => run[i].hVisited = hp

\* C8 witness: a finished traversal that visited 0, two multiples of the
\* step and a right edge that is not a multiple of the step.
HorizontalOffsetsWitness ==
  \E i \in Runs :
    /\ run[i].pc = "done" /\ FoundContainer(run[i])
    /\ Len(run[i].hVisited) = 4
    /\ run[i].hVisited[4] % HorizontalStep(grid) # 0

\* The current sweep is going on: an advance has been made and its settle
\* delay runs
Sweeping(r) == r.pc = "sleepV"

\* The call's last sweep has ended and no new one has begun
SweepEnded(r) ==
  /\ FoundContainer(r)
  /\ \/ r.pc = "done" /\ r.result.success
     \/ r.pc \in {"sleepH", "sleepTop"} /\ r.hIdx > 1

\* The last StableLimit advances each moved the position by at most 2 units
ConvergedByMoves(r) ==
  /\ Len(r.moves) >= StableLimit
  /\ \A k \in DOMAIN r.moves : r.moves[k] <= StableDelta

\* The position read after advance k of the window, against the position
\* read after the advance before it (-1 before the first advance)
ReadDelta(r, k) ==
  IF k > 1 THEN Abs(r.obs[k] - r.obs[k - 1]) ELSE Abs(r.obs[k] - InitialPrev)

\* The last StableLimit reads each differ from the read before by less than
\* 2 units
ConvergedByReads(r) ==
  /\ r.advances >= StableLimit
  /\ \A k \in DOMAIN r.obs :
       (k > Len(r.obs) - StableLimit) =>
         IF r.advances > StableLimit
         THEN k > 1 /\ Abs(r.obs[k] - r.obs[k - 1]) < StableDelta
         ELSE ReadDelta(r, k) < StableDelta

\* C9 as stated: the sweep stops exactly when the position has failed to
\* change by more than 2 units for 3 consecutive advances, and not before.
SweepStopsAfterThreeSmallMoves ==
  \A i \in Runs :
    /\ Sweeping(run[i]) => ~ConvergedByMoves(run[i])
    /\ SweepEnded(run[i]) => ConvergedByMoves(run[i])

\* C9 amended: the sweep stops exactly when, for 3 consecutive advances, the
\* position read after the advance differs by less than 2 units from the
\* position read after the advance before it (from -1 for the first advance
\* of the sweep), and not before.
SweepStopsAfterThreeStableReads ==
  \A i \in Runs :
    /\ Sweeping(run[i]) => ~ConvergedByReads(run[i])
    /\ SweepEnded(run[i]) => ConvergedByReads(run[i])

\* C9 witness: a sweep that ended on a grid that scrolls by exactly 2 units,
\* after more than 3 advances.
SweepStopsWitness ==
  \E i \in Runs :
    /\ run[i].pc = "done" /\ FoundContainer(run[i])
    /\ MaxScrollTop(grid) = 2
    /\ run[i].advances > StableLimit

\* C10: when a call that found the scroll container ends, scrollTop and
\* scrollLeft equal the values they had when the call started.
RestoresScroll ==
  [][\A i \in Runs :
       (run[i].pc # "done" /\ run'[i].pc = "done" /\ FoundContainer(run'[i]))
         => (scrollTop' = run[i].startTop /\ scrollLeft' = run[i].startLeft)]_vars

\* ------------------------------------------------------------------------
\* Properties of the row merger
\* ------------------------------------------------------------------------

\* The value a reader finds for (rowId, fid): row.cells.get(fid) || ''
CellValue(rows, rowId, fid) ==
  IF MapHas(rows, rowId) /\ fid \in DOMAIN rows[KeyPos(rows, rowId)].cells
  THEN rows[KeyPos(rows, rowId)].cells[fid]
  ELSE ""

\* C1: in every mergeRows call, a cell of the accumulator that holds a
\* non-empty value keeps it, and a cell changes only when it was missing or
\* empty and the incoming pass has a non-empty value for it, which it then
\* holds.
FirstNonEmptyWins ==
  [][~table.done =>
       \A rowId \in MapKeys(acc) \cup MapKeys(acc'), fid \in MergeFields :
         /\ CellValue(acc, rowId, fid) # "" =>
              CellValue(acc', rowId, fid) = CellValue(acc, rowId, fid)
         /\ CellValue(acc', rowId, fid) # CellValue(acc, rowId, fid) =>
              /\ CellValue(acc, rowId, fid) = ""
              /\ CellValue(pass', rowId, fid) # ""
              /\ CellValue(acc', rowId, fid) = CellValue(pass', rowId, fid)]_vars

\* C1 witness: the pass {rowA: {f1: "y", f2: "z"}} has been merged and the
\* accumulator is {rowA: {f1: "x", f2: "z"}}.
FirstNonEmptyWinsWitness ==
  /\ ~table.done
  /\ Len(pass) = 1 /\ pass[1].id = "rowA"
  /\ DOMAIN pass[1].cells = {"f1", "f2"}
  /\ pass[1].cells["f1"] = "y" /\ pass[1].cells["f2"] = "z"
  /\ Len(acc) = 1 /\ acc[1].id = "rowA"
  /\ DOMAIN acc[1].cells = {"f1", "f2"}
  /\ acc[1].cells["f1"] = "x" /\ acc[1].cells["f2"] = "z"

\* The one-to-one maps of 1..n onto itself
Bijections(n) ==
  {p \in [1..n -> 1..n] : \A i, j \in 1..n : i # j => p[i] # p[j]}

\* C6: convertRowsMapToArray returns the accumulated observations in
\* ascending order of index, each as the values of the fieldIds in order,
\* with "" where the observation has no value for a fieldId.
ConvertSortsAndProjects ==
  table.done =>
    \E p \in Bijections(Len(acc)) :
      /\ Len(table.rows) = Len(acc)
      /\ \A i, j \in DOMAIN acc : i < j => acc[p[i]].index <= acc[p[j]].index
      /\ \A i \in DOMAIN acc :
           /\ Len(table.rows[i]) = Len(table.fieldIds)
           /\ \A k \in DOMAIN table.fieldIds :
                table.rows[i][k] =
                  IF table.fieldIds[k] \in DOMAIN acc[p[i]].cells
                  THEN acc[p[i]].cells[table.fieldIds[k]]
                  ELSE ""

\* C6 witness: a conversion of two observations that were inserted in
\* descending order of index, the second without a value for a fieldId.
ConvertSortsAndProjectsWitness ==
  /\ table.done
  /\ Len(acc) = 2 /\ acc[1].index > acc[2].index
  /\ table.fieldIds = <<"f2", "f1">>
  /\ "f2" \in DOMAIN acc[1].cells /\ acc[1].cells["f2"] = "z"
  /\ "f2" \notin DOMAIN acc[2].cells
  /\ table.rows[1][1] = "" /\ table.rows[2][1] = "z"

\* ------------------------------------------------------------------------
\* Properties of the capture store
\* ------------------------------------------------------------------------

\* C2: while no CLEAR_DATA is handled (the only step that empties the
\* store), the row count of the stored table never decreases.
RowCountNeverDecreases ==
  [][(~capturedData.parsedTable.null /\ ~capturedData'.parsedTable.null) =>
       Len(capturedData'.parsedTable.rows) >= Len(capturedData.parsedTable.rows)]_vars

\* C7: every row of the stored table has exactly as many entries as the
\* table has headers, and every entry is a string.
StoredTableWellFormed ==
  ~capturedData.parsedTable.null =>
    \A r \in DOMAIN capturedData.parsedTable.rows :
      /\ Len(capturedData.parsedTable.rows[r]) = Len(capturedData.parsedTable.headers)
      /\ \A k \in DOMAIN capturedData.parsedTable.rows[r] :
           capturedData.parsedTable.rows[r][k] \in STRING

\* C7 witness: a table parsed from an API response whose records have
\* different keys and a null value is stored, with "" for what a record
\* does not have.
StoredTableWellFormedWitness ==
  /\ ~capturedData.parsedTable.null
  /\ capturedData.method = "api"
  /\ capturedData.parsedTable.headers = <<"name", "age", "email", "tags">>
  /\ capturedData.parsedTable.rows =
       << <<"Ann", "30", "", "">>, <<"Ann", "", "", "">>, <<"Ann", "", "", "a; b">> >>

\* ------------------------------------------------------------------------
\* Properties of the failure paths
\* ------------------------------------------------------------------------

\* The fields of the store a scrape may write
StoredCapture(c) == <<c.parsedTable, c.method, c.capturedAt>>

\* C11: on a page without header cells, a SCRAPE_VISIBLE or SCRAPE_ALL call
\* ends in the step in which it begins, with success = false and an error
\* message, without a change of either scroll position; the response the
\* service worker then sends carries that failure, and the stored table,
\* method and capturedAt are what they were.
HeadersAbsentReported ==
  [][~grid.hasHeaders =>
       \A i \in Runs :
         /\ (run[i].pc = "idle" /\ run'[i].pc # "idle") =>
              /\ run'[i].pc = "done"
              /\ ~run'[i].result.success
              /\ run'[i].result.error # ""
              /\ scrollTop' = scrollTop
              /\ scrollLeft' = scrollLeft
              /\ capturedData' = capturedData
         /\ (run[i].pc = "done" /\ run'[i].pc = "idle") =>
              /\ response'.sent
              /\ ~response'.success
              /\ response'.error = run[i].result.error
              /\ StoredCapture(capturedData') = StoredCapture(capturedData)
              /\ scrollTop' = scrollTop
              /\ scrollLeft' = scrollLeft]_vars

\* A failed scrape has been answered on a page without header cells while
\* the store holds a table captured from the API.
HeadersAbsentReportedWitness ==
  /\ ~grid.hasHeaders
  /\ response.sent
  /\ response.error = "Could not find Clay table headers"
  /\ ~capturedData.parsedTable.null
  /\ capturedData.method = "api"
  /\ run[1].pc = "idle"

\* C12: on a page with header cells and no scroll container, a SCRAPE_ALL
\* call ends in the step in which it begins: neither scroll position
\* changes, and its result is the result of one scrapeVisibleRows over the
\* rows rendered at that moment, one row per rendered grid row, with method
\* dom_visible.
ContainerAbsentSinglePass ==
  [][(grid.hasHeaders /\ ~grid.hasContainer) =>
       \A i \in Runs :
         (run[i].pc = "idle" /\ run'[i].pc # "idle"
            /\ run'[i].action = "SCRAPE_ALL") =>
           /\ run'[i].pc = "done"
           /\ scrollTop' = scrollTop
           /\ scrollLeft' = scrollLeft
           /\ run'[i].result = scrapeVisibleRows(grid, scrollTop, scrollLeft)
           /\ run'[i].result.success =>
                /\ run'[i].result.method = "dom_visible"
                /\ run'[i].result.headers = extractHeaders(grid).labels
                /\ run'[i].result.rowCount =
                     Cardinality(VisibleRows(grid, scrollTop))]_vars

\* A SCRAPE_ALL call has ended with the rendered rows of a page that has no
\* scroll container and more rows than are rendered.
ContainerAbsentSinglePassWitness ==
  /\ grid.hasHeaders
  /\ ~grid.hasContainer
  /\ run[1].action = "SCRAPE_ALL"
  /\ run[1].pc = "done"
  /\ run[1].result.success
  /\ run[1].result.method = "dom_visible"
  /\ run[1].result.rowCount > 0
  /\ run[1].result.rowCount < grid.nRows

\* ------------------------------------------------------------------------
\* Properties of the capture buffer
\* ------------------------------------------------------------------------

\* C13: the capture buffer never holds more than 100 entries.
BufferBounded == Len(capturedData.apiResponses) <= MaxResponses

\* A response has arrived at a full buffer and an entry has been dropped.
BufferBoundedWitness ==
  /\ Len(capturedData.apiResponses) = MaxResponses
  /\ Len(capture.dropped) = 1
  /\ capture.clock > MaxResponses

\* The entries the last call chose among: those it kept and those it dropped
Pool == Range(capturedData.apiResponses) \cup Range(capture.dropped)

\* C14: an entry dropped at the cap is not flagged as table data if any
\* entry the call chose among is not, and no entry of its own tier
\* (flagged, not flagged) among them is older than it.
EvictsOldestOfLowestTier ==
  \A k \in DOMAIN capture.dropped :
    LET evicted == capture.dropped[k]
    IN /\ (\E e \in Pool : ~e.hasTableData) => ~evicted.hasTableData
       /\ \A e \in Pool :
            e.hasTableData = evicted.hasTableData =>
              evicted.timestamp <= e.timestamp

\* ------------------------------------------------------------------------
\* Properties of the exports
\* ------------------------------------------------------------------------

\* C15: the rows an export or copy is generated from are all the stored
\* rows when the message has no range, and the stored rows numbered start
\* to end (from 1), in their order, when 1 <= start <= end <= rows.length.
RangeSelectsRows ==
  [][(exported.pc = "idle" /\ exported'.pc = "pending") =>
       LET rows == capturedData.parsedTable.rows
           range == exported'.range
       IN /\ range.null => exported'.rows = rows
          /\ (~range.null /\ 1 <= range.start /\ range.start <= range.end
                /\ range.end <= Len(rows)) =>
               /\ Len(exported'.rows) = range.end - range.start + 1
               /\ \A k \in 1..Len(exported'.rows) :
                    exported'.rows[k] = rows[range.start + k - 1]]_vars

\* An export of rows 2 to 3 of a table of 3 different rows is in progress.
RangeSelectsRowsWitness ==
  /\ exported.pc = "pending"
  /\ exported.range = Range1(2, 3)
  /\ ~capturedData.parsedTable.null
  /\ Len(capturedData.parsedTable.rows) = 3
  /\ capturedData.parsedTable.rows[1] # capturedData.parsedTable.rows[2]
  /\ capturedData.parsedTable.rows[2] # capturedData.parsedTable.rows[3]
  /\ exported.rows = SubSeq(capturedData.parsedTable.rows, 2, 3)

\* C17: a step of an export or copy (its start, its refusal for want of a
\* table, its end with any outcome) leaves the whole store as it was: the
\* table, the method, capturedAt and the capture buffer.
ExportsLeaveStore ==
  [][(\/ exported' # exported
      \/ /\ response' # response
         /\ response'.error = "No data captured yet") =>
       /\ capturedData' = capturedData
       /\ capture' = capture]_vars

\* A copy of part of a stored table has timed out and the store holds the
\* table and the buffer.
ExportsLeaveStoreWitness ==
  /\ response.sent
  /\ response.error = "Clipboard error: Clipboard copy timed out"
  /\ exported.pc = "idle"
  /\ ~capturedData.parsedTable.null
  /\ Len(capturedData.parsedTable.rows) = 3
  /\ capturedData.method = "api"
  /\ Len(capturedData.apiResponses) > 0

\* ------------------------------------------------------------------------
\* Properties of the popup
\* ------------------------------------------------------------------------

\* Every character of s from position from to position to is in chars
AllIn(s, from, to, chars) == \A k \in from..to : s[k] \in chars

\* The numbers <<start, end>> a text names as a range: the text is one row
\* number (digits at a..b), or two row numbers (digits at a..b and at c..d)
\* with a hyphen (at h) between them, with spaces around any of them
Named(input) ==
  LET n == Len(input)
  IN {<<Decimal(SubSeq(input, p[1], p[2])), Decimal(SubSeq(input, p[1], p[2]))>> :
        p \in {q \in (1..n) \X (1..n) :
                 /\ q[1] <= q[2]
                 /\ AllIn(input, 1, q[1] - 1, Spaces)
                 /\ AllIn(input, q[1], q[2], Digits)
                 /\ AllIn(input, q[2] + 1, n, Spaces)}}
     \cup
     {<<Decimal(SubSeq(input, p[1], p[2])), Decimal(SubSeq(input, p[4], p[5]))>> :
        p \in {q \in (1..n) \X (1..n) \X (1..n) \X (1..n) \X (1..n) :
                 /\ q[1] <= q[2] /\ q[2] < q[3] /\ q[3] < q[4] /\ q[4] <= q[5]
                 /\ AllIn(input, 1, q[1] - 1, Spaces)
                 /\ AllIn(input, q[1], q[2], Digits)
                 /\ AllIn(input, q[2] + 1, q[3] - 1, Spaces)
                 /\ input[q[3]] = "-"
                 /\ AllIn(input, q[3] + 1, q[4] - 1, Spaces)
                 /\ AllIn(input, q[4], q[5], Digits)
                 /\ AllIn(input, q[5] + 1, n, Spaces)}}

InBounds(start, end, totalRows) ==
  1 <= start /\ start <= end /\ end <= totalRows

\* C16: the range of a message the popup sends satisfies
\* 1 <= start <= end <= totalRows, and after a click on a text that names
\* a range outside these bounds the error is logged and no message is sent.
RangeValidated ==
  /\ (popup.pc = "sent" /\ ~popup.message.range.null) =>
       InBounds(popup.message.range.start, popup.message.range.end,
                popup.totalRows)
  /\ (popup.pc # "idle"
        /\ \E named \in Named(popup.input) :
             ~InBounds(named[1], named[2], popup.totalRows)) =>
       /\ popup.pc = "logged"
       /\ popup.log # ""
       /\ popup.message = NoMessage

\* A click with "2-1" in the range field and 2 rows shown has logged an
\* error and sent nothing.
RangeValidatedWitness ==
  /\ popup.input = <<"2", "-", "1">>
  /\ popup.totalRows = 2
  /\ popup.pc = "logged"
  /\ popup.log = "Start must be less than or equal to end"
  /\ popup.message = NoMessage

\* C32: the popup sends a message only for a text that is blank (all rows),
\* one row number, or two row numbers with a hyphen between them; a click on
\* any other text, such as "1-", "1x" or "1-2-", logs an error.
OnlyRangesAreAccepted ==
  popup.pc = "sent" =>
    \/ AllIn(popup.input, 1, Len(popup.input), Spaces)
    \/ Named(popup.input) # {}

\* ------------------------------------------------------------------------
\* Properties of the generated documents
\* ------------------------------------------------------------------------

\* Reading CSV in which every field is quoted.  A field that opens at
\* position i closes at the end of the first run of quotes after i that has
\* an odd length (the quotes before the last of the run are pairs).
ClosingQuote(text, i) ==
  LET starts == {p \in (i + 1)..Len(text) :
                   /\ text[p] = Quote
                   /\ p = i + 1 \/ text[p - 1] # Quote
                   /\ RunLength(text, p, {Quote}) % 2 = 1}
  IN IF starts = {} THEN 0
     ELSE LET p == CHOOSE q \in starts : \A r \in starts : q <= r
          IN p + RunLength(text, p, {Quote}) - 1

\* Every pair of quotes becomes one quote
RECURSIVE Undouble(_)
Undouble(str) ==
  IF Len(str) = 0 THEN << >>
  ELSE IF Head(str) = Quote THEN <<Quote>> \o Undouble(Tail(Tail(str)))
  ELSE <<Head(str)>> \o Undouble(Tail(str))

\* The records of the text from position i on: fields separated by commas,
\* records by CR LF; ok is FALSE when the text is anything else.
RECURSIVE ReadCsv(_, _, _, _)
ReadCsv(text, i, record, records) ==
  IF i > Len(text) THEN [ok |-> TRUE, records |-> Append(records, record)]
  ELSE IF text[i] = Quote
  THEN LET close == ClosingQuote(text, i)
           read == Append(record, Undouble(SubSeq(text, i + 1, close - 1)))
       IN IF close = 0 THEN [ok |-> FALSE, records |-> records]
          ELSE IF close = Len(text)
          THEN [ok |-> TRUE, records |-> Append(records, read)]
          ELSE IF text[close + 1] = Comma
                  /\ close + 2 <= Len(text) /\ text[close + 2] = Quote
          THEN ReadCsv(text, close + 2, read, records)
          ELSE IF text[close + 1] = CR
                  /\ close + 2 <= Len(text) /\ text[close + 2] = LF
          THEN ReadCsv(text, close + 3, << >>, Append(records, read))
          ELSE [ok |-> FALSE, records |-> records]
  ELSE IF /\ Len(record) = 0
          /\ text[i] = CR
          /\ i + 1 <= Len(text) /\ text[i + 1] = LF
  THEN ReadCsv(text, i + 2, << >>, Append(records, << >>))
  ELSE [ok |-> FALSE, records |-> records]

\* Strip the BOM, split the quoted fields, undouble the quotes
ParseCsv(csv) == ReadCsv(Tail(csv), 1, << >>, << >>)

\* The records the metadata block reads as
MetadataRecords(metadata) ==
  IF metadata.null THEN << >>
  ELSE << <<SubSeq(ParametersMarker, 2, Len(ParametersMarker) - 1)>> >>
       \o [e \in DOMAIN metadata.entries |->
             <<metadata.entries[e].key, metadata.entries[e].val>>]
       \o << <<SubSeq(EndMarker, 2, Len(EndMarker) - 1)>>, << >> >>

\* C18: the CSV text begins with the byte-order mark and is, after it,
\* records joined by CR LF whose fields are joined by commas and wrapped in
\* quotes with the quotes inside doubled; after the metadata block come
\* the header record and one record per row, each of exactly
\* headers.length fields: the headers, and the cells of the row at columns
\* 1..headers.length, empty where the row has none.
CsvRecordsOfHeaderLength ==
  doc.pc = "csv" =>
    LET parsed == ParseCsv(doc.csv)
        skip == Len(MetadataRecords(doc.metadata))
    IN /\ Head(doc.csv) = BOM
       /\ parsed.ok
       /\ Len(parsed.records) = skip + 1 + Len(doc.rows)
       /\ SubSeq(parsed.records, 1, skip) = MetadataRecords(doc.metadata)
       /\ parsed.records[skip + 1] = doc.headers
       /\ \A r \in DOMAIN doc.rows :
            /\ Len(parsed.records[skip + 1 + r]) = Len(doc.headers)
            /\ \A i \in DOMAIN doc.headers :
                 parsed.records[skip + 1 + r][i] = TextAt(doc.rows[r], i)

\* A CSV text has been generated for two headers from a row of four cells
\* and a row of no cell.
CsvRecordsOfHeaderLengthWitness ==
  /\ doc.pc = "csv"
  /\ Len(doc.headers) = 2
  /\ Len(doc.rows) = 2
  /\ Len(doc.rows[1]) = 4
  /\ Len(doc.rows[2]) = 0
  /\ ~doc.metadata.null

Rectangular(headers, rows) == \A r \in DOMAIN rows : Len(rows[r]) = Len(headers)

\* C19: without metadata, and for rows that have one cell per header, the
\* records read back from the CSV text are the headers followed by the
\* rows.
CsvRoundTrip ==
  (doc.pc = "csv" /\ doc.metadata.null /\ Rectangular(doc.headers, doc.rows)) =>
    /\ ParseCsv(doc.csv).ok
    /\ ParseCsv(doc.csv).records = <<doc.headers>> \o doc.rows

\* A CSV text has been generated, without metadata, from two rows of two
\* cells with quotes, a comma, an empty cell and a CR LF in them.
CsvRoundTripWitness ==
  /\ doc.pc = "csv"
  /\ doc.metadata.null
  /\ doc.headers = << <<"b", Quote>>, <<Comma, "a">> >>
  /\ doc.rows = << << <<Quote, Quote>>, <<"a", Comma, Quote>> >>,
                   << << >>, <<CR, LF>> >> >>

\* obj[key], undefined read as the empty text
PropOf(obj, key) ==
  IF \E k \in DOMAIN obj.keys : obj.keys[k] = key
  THEN obj.vals[CHOOSE k \in DOMAIN obj.keys : obj.keys[k] = key]
  ELSE << >>

\* C20: for rows that have one cell per header, there is one record per
\* row, in the order of the rows, and record k has rows[k][i] under
\* headers[i] for every column i.
JsonRecordsMapColumns ==
  (doc.pc = "json" /\ Rectangular(doc.headers, doc.rows)) =>
    /\ Len(doc.json.records) = Len(doc.rows)
    /\ \A k \in DOMAIN doc.rows : \A i \in DOMAIN doc.headers :
         PropOf(doc.json.records[k], doc.headers[i]) = doc.rows[k][i]

\* ------------------------------------------------------------------------
\* Properties of flattenValue
\* ------------------------------------------------------------------------

\* The ten keys flattenValue looks for, in the order it tries them
PriorityKeys ==
  <<"value", "text", "name", "label", "title", "display", "url", "href",
    "email", "phone">>

\* C21: for an object that has at least one of the ten keys, flattenValue
\* returns the flattened value of the first of them the object has, whatever
\* that key is and whatever JSON value is stored under it.
FlattensFirstPresentKey ==
  (/\ parsing.pc = "flattened"
   /\ parsing.val.t = "object"
   /\ \E i \in DOMAIN PriorityKeys : HasKey(parsing.val, PriorityKeys[i]))
  => LET first == CHOOSE i \in DOMAIN PriorityKeys :
                    /\ HasKey(parsing.val, PriorityKeys[i])
                    /\ \A j \in 1..(i - 1) : ~HasKey(parsing.val, PriorityKeys[j])
     IN parsing.flat = flattenValue(GetProp(parsing.val, PriorityKeys[first]))

\* C22: flattenValue returns a string, returns a string unchanged (so that
\* flattening its own result changes nothing), and returns the empty string
\* for null and undefined.
FlattenIsIdempotent ==
  parsing.pc = "flattened"
  => /\ parsing.flat \in STRING
     /\ flattenValue(JStr(parsing.flat)) = parsing.flat
     /\ parsing.val.t = "string" => parsing.flat = parsing.val.s
     /\ parsing.val.t \in {"null", "undefined"} => parsing.flat = ""

FlattenIsIdempotentWitness ==
  /\ parsing.pc = "flattened"
  /\ parsing.val = JArr(<<JObj(<<"text">>, <<JStr("t")>>), JStr("u")>>)
  /\ parsing.flat = "t; u"

\* ------------------------------------------------------------------------
\* Properties of findAllTableArrays
\* ------------------------------------------------------------------------

\* The arrays inside v, each with the number of arrays and objects around it
RECURSIVE ArraysIn(_, _)
ArraysIn(v, depth) ==
  IF v.t = "array"
  THEN {[items |-> v.items, depth |-> depth]}
       \cup UNION {ArraysIn(v.items[i], depth + 1) : i \in DOMAIN v.items}
  ELSE IF v.t = "object"
  THEN UNION {ArraysIn(v.vals[i], depth + 1) : i \in DOMAIN v.vals}
  ELSE {}

\* The keys of the first item that item i has too
SharedKeys(items, i) ==
  IF items[i].t \in {"object", "array"}
  THEN Range(ObjectKeys(items[1])) \cap Range(ObjectKeys(items[i]))
  ELSE {}

\* Non-empty, the first item a non-array object of 2 keys or more, each of
\* the first min(5, length) items an object that shares 50% or more of the
\* first item's keys
Qualifies(items) ==
  /\ items # << >>
  /\ items[1].t = "object"
  /\ Cardinality(Range(items[1].keys)) >= 2
  /\ \A i \in DOMAIN items :
       i <= 5 => /\ items[i].t \in {"object", "array"}
                 /\ 100 * Cardinality(SharedKeys(items, i))
                      >= 50 * Cardinality(Range(items[1].keys))

\* C23: the candidates of findAllTableArrays are exactly the arrays of the
\* value, at most 8 levels down, that qualify; an array with a sampled item
\* that shares 1 of the 4 keys is not a candidate, one with 2 of 4 is.
CandidatesAreQualifyingArrays ==
  parsing.pc = "searched"
  => /\ Range(parsing.found) =
          {a.items : a \in {b \in ArraysIn(parsing.val, 0) :
                              b.depth <= 8 /\ Qualifies(b.items)}}
     /\ \A n \in 1..5 :
          parsing.val = JArr([i \in 1..5 |-> IF i = n THEN Sharing(1) ELSE FirstItem])
          => parsing.found = << >>
     /\ \A n \in 2..5 :
          parsing.val = JArr([i \in 1..5 |-> IF i = n THEN Sharing(2) ELSE FirstItem])
          => parsing.found = <<parsing.val.items>>

CandidatesAreQualifyingArraysWitness ==
  /\ parsing.pc = "searched"
  /\ parsing.val = JArr(<<FirstItem, FirstItem, FirstItem, FirstItem, Sharing(2)>>)
  /\ parsing.found = <<parsing.val.items>>

\* ------------------------------------------------------------------------
\* Properties of parseApiResponsesToTable
\* ------------------------------------------------------------------------

\* The candidates of the stored batch, in batch order and traversal order
BatchCandidates == Candidates(capturedData.apiResponses, 1)

\* Those that yield one header or more
Headed(cands) ==
  SelectSeq(cands, LAMBDA c : extractHeadersFromObjects(c) # << >>)

\* The parse of a candidate with a null among its items throws
HasNull(cands) == \E i \in DOMAIN cands : \E r \in DOMAIN cands[i] : cands[i][r] = JNull

\* The table built from a candidate
TableOf(c) ==
  Table(extractHeadersFromObjects(c),
        [r \in DOMAIN c |-> RowOf(c[r], extractHeadersFromObjects(c))])

\* The first of the candidates with the most rows
FirstLargest(cands) ==
  cands[CHOOSE i \in DOMAIN cands :
          /\ \A j \in DOMAIN cands : Len(cands[j]) <= Len(cands[i])
          /\ \A j \in 1..(i - 1) : Len(cands[j]) < Len(cands[i])]

Denylist ==
  {"__typename", "_id", "createdAt", "updatedAt", "created_at", "updated_at",
   "__v", "cursor", "node"}

\* The keys of the items c[1..n], item after item
RECURSIVE KeysOfItems(_, _)
KeysOfItems(c, n) ==
  IF n = 0 THEN << >>
  ELSE KeysOfItems(c, n - 1)
       \o (IF c[n].t \in {"object", "array"} THEN ObjectKeys(c[n]) ELSE << >>)

\* The keys of the first 10 items in order of first appearance, without the
\* denylisted ones
HeadersOf(c) ==
  LET ks == KeysOfItems(c, IF Len(c) < 10 THEN Len(c) ELSE 10)
      firsts == {i \in DOMAIN ks :
                   ks[i] \notin Denylist /\ \A j \in 1..(i - 1) : ks[j] # ks[i]}
  IN [n \in 1..Cardinality(firsts) |->
        ks[CHOOSE i \in firsts : Cardinality({j \in firsts : j < i}) = n - 1]]

\* Each header mapped to the flattened value of that key, "" without the key
RowsOf(c) ==
  [r \in DOMAIN c |->
     [j \in DOMAIN HeadersOf(c) |->
        IF HasKey(c[r], HeadersOf(c)[j])
        THEN flattenValue(GetProp(c[r], HeadersOf(c)[j]))
        ELSE ""]]

DiagnosisOf(responses) ==
  LET examined == Len(responses)
      flagged == Cardinality({i \in DOMAIN responses : responses[i].hasTableData})
      sample == SubSeq(responses, 1, IF examined < 5 THEN examined ELSE 5)
  IN "Captured " \o ToString(examined) \o " API responses ("
     \o ToString(flagged)
     \o " with table-like data) but could not map to table columns. URLs: "
     \o Join([i \in DOMAIN sample |-> sample[i].url], ", ")
     \o ". Try DOM scraping instead."

\* C26: when no candidate of the batch yields a header and a row,
\* USE_API_DATA answers success = false with the number of responses
\* examined, the number flagged as table data and the first URLs, and leaves
\* the store (table, method, capturedAt) as it was; with an empty batch it
\* answers success = false and leaves the store as it was.
NoTableIsDiagnosed ==
  [][UseApiData
     => /\ capturedData.apiResponses = << >>
             => /\ response'.sent /\ ~response'.success
                /\ response'.error = NoResponsesMessage
                /\ capturedData' = capturedData
        /\ (/\ capturedData.apiResponses # << >>
            /\ Headed(BatchCandidates) = << >>)
             => /\ response'.sent /\ ~response'.success
                /\ response'.error = DiagnosisOf(capturedData.apiResponses)
                /\ capturedData' = capturedData]_vars

\* USE_API_DATA has answered for a batch of six responses, one of them with
\* a candidate that yields no header, after the page had been scraped
NoTableIsDiagnosedWitness ==
  /\ response.sent
  /\ ~response.success
  /\ response.error = DiagnosisOf(capturedData.apiResponses)
  /\ Len(capturedData.apiResponses) = 6
  /\ BatchCandidates # << >>
  /\ capturedData.parsedTable = Table(<<"Name">>, << <<"Ann">> >>)
  /\ capturedData.method = "dom_scroll"

\* C27: whatever the batch holds, handling API_DATA_CAPTURED ends with the
\* acknowledgement and handling USE_API_DATA with a success or a failure
\* response, and a parse that gives no table leaves the stored table as it
\* was.
EveryBatchIsAnswered ==
  [][/\ ApiDataCaptured => response' = Ack
     /\ UseApiData => response'.sent
     /\ ((ApiDataCaptured \/ UseApiData) /\ ~response'.success /\ ~response'.ok)
          => capturedData'.parsedTable = capturedData.parsedTable]_vars

\* ------------------------------------------------------------------------
\* Properties of the capture buffer under concurrent messages
\* ------------------------------------------------------------------------

\* The buffer with the response put in (in front when flagged) and cut to
\* the cap
Inserted(buffer, p) ==
  LET full == IF p.hasTableData THEN <<p>> \o buffer ELSE buffer \o <<p>>
  IN IF Len(full) > 100 THEN SubSeq(full, 1, 100) ELSE full

\* A table the auto-parse or USE_API_DATA accepts
Accepted(result) == result.ok /\ ~result.table.null /\ result.table.rows # << >>

\* C28: a handler is one step. Each API_DATA_CAPTURED leaves the buffer with
\* the response put in and cut to the cap, and the table its auto-parse
\* stores is the parse of that buffer; USE_API_DATA leaves the buffer as it
\* was and stores the parse of it when it answers with success (a parse
\* that throws leaves the whole store as it was); no step leaves (for the
\* next handler to read) a buffer above the cap.
CaptureIsOneStep ==
  [][/\ ApiDataCaptured
          => \E data \in Payloads :
               LET p == Stamped(data, capture'.clock)
                   result == parseApiResponsesToTable(capturedData'.apiResponses)
                   stored == capturedData.parsedTable
               IN /\ capturedData'.apiResponses
                       = Inserted(capturedData.apiResponses, p)
                  /\ capturedData'.parsedTable =
                       IF /\ p.hasTableData
                          /\ Accepted(result)
                          /\ stored.null \/ Len(result.table.rows) >= Len(stored.rows)
                       THEN result.table
                       ELSE stored
     /\ UseApiData
          => LET result == parseApiResponsesToTable(capturedData.apiResponses)
             IN /\ capturedData'.apiResponses = capturedData.apiResponses
                /\ (result.ok /\ response'.success)
                     => capturedData'.parsedTable = result.table
                /\ ~result.ok => capturedData' = capturedData
     /\ Len(capturedData'.apiResponses) <= 100]_vars

\* An API_DATA_CAPTURED has put a flagged response into a full buffer, cut
\* the buffer and stored the table parsed from it
CaptureIsOneStepWitness ==
  /\ Len(capturedData.apiResponses) = 100
  /\ capture.dropped # << >>
  /\ capturedData.apiResponses[1].timestamp = capture.clock
  /\ capturedData.apiResponses[1].hasTableData
  /\ response = Ack
  /\ ~capturedData.parsedTable.null
  /\ capturedData.parsedTable
       = parseApiResponsesToTable(capturedData.apiResponses).table

\* ------------------------------------------------------------------------
\* Termination of the vertical sweep
\* ------------------------------------------------------------------------

\* C29: a vertical sweep makes a bounded number of advances, so that it
\* ends even when the position read after every advance differs by 2 units
\* or more from the one read before.
SweepIsBounded == (run[1].pc = "sleepV") ~> (run[1].pc # "sleepV")

\* C30: a mergeRows call leaves the index of every key already in the
\* accumulator as it was, whatever index the incoming row of that key carries,
\* and a key that is new takes the index of the incoming row that brought it:
\* the index stored for a key is that of its first observation.
IndexIsOfFirstObservation ==
  [][MergePass =>
       \A q \in DOMAIN acc' :
         LET rowId == acc'[q].id
         IN IF MapHas(acc, rowId)
            THEN acc'[q].index = acc[KeyPos(acc, rowId)].index
            ELSE \E i \in DOMAIN pass' :
                   /\ pass'[i].id = rowId
                   /\ acc'[q].index = pass'[i].index]_vars

\* A key of the accumulator whose last incoming row carried another index
IndexIsOfFirstObservationWitness ==
  \E p \in DOMAIN acc, i \in DOMAIN pass :
    /\ acc[p].id = pass[i].id
    /\ acc[p].index # pass[i].index

\* ------------------------------------------------------------------------
\* background.js: the depth limit of findAllTableArrays
\* ------------------------------------------------------------------------

\* C31: of two qualifying arrays, one n levels below the root and one n + 2
\* levels below it, findAllTableArrays(data) returns each exactly when its
\* level is 8 or less; with both deeper than that it returns no candidate,
\* and it returns in every case.
DepthLimitIsEight ==
  \A n \in 0..(MaxDepth + 2) :
    parsing.val = Nest(DeepTable, n) /\ parsing.pc # "value"
    => /\ parsing.pc = "searched" \/ parsing.pc = "flattened"
       /\ parsing.pc = "searched"
          => parsing.found =
               (IF n <= 8 THEN <<DeepTable.items>> ELSE << >>)
               \o (IF n + 2 <= 8 THEN <<InnerRows>> ELSE << >>)

\* The outer array at level 8 is returned, the inner one at level 10 is not
DepthLimitIsEightWitness ==
  /\ parsing.pc = "searched"
  /\ parsing.val = Nest(DeepTable, 8)
  /\ parsing.found = <<DeepTable.items>>

\* ------------------------------------------------------------------------
\* Properties of the traversal on a settled page
\* ------------------------------------------------------------------------

\* C33: on a page whose container clamps scrollTop to 0..maxScrollTop and
\* where every settle delay elapses, a scrapeAllRowsByScrolling call that is
\* in one of its delays leads to the end of the call, with a result.
SettledSweepEnds ==
  (run[1].pc \in {"sleepH", "sleepTop", "sleepV"}) ~> (run[1].pc = "done")

\* A call over five horizontal offsets has ended with its table
SettledSweepEndsWitness ==
  /\ run[1].pc = "done"
  /\ run[1].action = "SCRAPE_ALL"
  /\ Len(run[1].hPositions) = 5
  /\ run[1].hVisited = run[1].hPositions
  /\ run[1].result.success

\* C34: no advance of a sweep moves the container by more than the height
\* of the viewport and no two consecutive horizontal offsets are further
\* apart than its width, on viewports shorter than 150 units or narrower
\* than 300 units too: consecutive extraction windows overlap or abut.
WindowsOverlapOrAbut ==
  run[1].action = "SCRAPE_ALL" =>
    /\ \A k \in DOMAIN run[1].moves : run[1].moves[k] <= grid.clientHeight
    /\ \A k \in 1..(Len(run[1].hVisited) - 1) :
         run[1].hVisited[k + 1] - run[1].hVisited[k] <= grid.clientWidth

\* C35: the sweep of an offset extracts at scrollTop 0 when it is entered;
\* after each advance it either extracts at the position the advance has
\* reached and goes on, or ends at a position where it has extracted
\* already (the clamped bottom included). Calls that end in the catch clause
\* are left out: their extraction has thrown.
EveryPositionIsExtracted ==
  [][/\ (AfterSleepTop(1) /\ run'[1].pc = "sleepV")
          => /\ run'[1].before = 0
             /\ VisibleRows(grid, 0) \subseteq run'[1].seenRows
     /\ (AfterSleepV(1) /\ run'[1].pc = "sleepV")
          => /\ run'[1].before = scrollTop
             /\ VisibleRows(grid, scrollTop) \subseteq run'[1].seenRows
     /\ (AfterSleepV(1) /\ (run'[1].pc = "sleepH" \/ run'[1].result.success))
          => /\ run[1].before = scrollTop
             /\ VisibleRows(grid, scrollTop) \subseteq run[1].seenRows]_vars

\* A sweep has ended at the bottom of a grid that scrolls, where it had
\* extracted before its last advance
EveryPositionIsExtractedWitness ==
  /\ run[1].pc = "done"
  /\ run[1].result.success
  /\ MaxScrollTop(grid) > 0
  /\ run[1].obs # << >>
  /\ run[1].obs[Len(run[1].obs)] = MaxScrollTop(grid)
  /\ run[1].before = MaxScrollTop(grid)
  /\ grid.nRows \in run[1].seenRows

\* ------------------------------------------------------------------------
\* Properties of the order of the capture buffer
\* ------------------------------------------------------------------------

\* C36: in the capture buffer every response flagged as table data stands
\* before every response that is not; the flagged ones stand newest first
\* and the others oldest first.
BufferIsOrdered ==
  LET responses == capturedData.apiResponses
  IN \A i, j \in DOMAIN responses :
       i < j =>
         /\ responses[j].hasTableData => responses[i].hasTableData
         /\ (responses[i].hasTableData /\ responses[j].hasTableData)
              => responses[i].timestamp > responses[j].timestamp
         /\ (~responses[i].hasTableData /\ ~responses[j].hasTableData)
              => responses[i].timestamp < responses[j].timestamp

\* A full buffer of both kinds, after a flagged response and then another
\* response have arrived: the first stands in front, the second was cut off
BufferIsOrderedWitness ==
  /\ capture.count = 2
  /\ Len(capturedData.apiResponses) = MaxResponses
  /\ capturedData.apiResponses[1].timestamp = Backlog + 1
  /\ capturedData.apiResponses[2].hasTableData
  /\ ~capturedData.apiResponses[MaxResponses].hasTableData
  /\ Len(capture.dropped) = 1
  /\ capture.dropped[1].timestamp = Backlog + 2

\* ------------------------------------------------------------------------
\* Properties of the clipboard calls
\* ------------------------------------------------------------------------

\* C37: the result that resolves the promise of a copyToClipboard call is
\* the one the offscreen document produced for the OFFSCREEN_COPY of that
\* call, also while several calls are in flight.
CopyResultIsOwn ==
  \A i \in Copies :
    copies.calls[i].resolvedBy # 0 => copies.calls[i].resolvedBy = i

\* Each copyToClipboard call has answered at most once, and once when it has
\* ended; a call that has timed out keeps its timeout answer
CopiesAnsweredOnce ==
  \A i \in Copies :
    /\ Len(copies.calls[i].responses) <= 1
    /\ copies.calls[i].pc = "answered" <=> Len(copies.calls[i].responses) = 1

\* C38: every request is answered exactly once: a copyToClipboard call by
\* the result of the offscreen document or, when that does not come within
\* 5000 ms, by the timeout failure, which a late result does not add to; a
\* USE_API_DATA by a success or a failure response.
EveryRequestIsAnsweredOnce ==
  [][/\ CopiesAnsweredOnce'
     /\ \A i \in Copies :
          CopyTimesOut(i) =>
            copies'.calls[i].responses = <<Failure(ErrorOf("timed_out"))>>
     /\ \A i \in Copies :
          copies.calls[i].pc = "answered" => copies'.calls[i] = copies.calls[i]
     /\ UseApiData => (response'.sent /\ ~unanswered')]_vars

\* ------------------------------------------------------------------------
\* Properties of CLEAR_DATA
\* ------------------------------------------------------------------------

\* C39: CLEAR_DATA empties the buffer and resets the table, the method,
\* capturedAt and sourceUrl in one step, and the result of a SCRAPE_ALL or
\* SCRAPE_VISIBLE that was in flight when CLEAR_DATA was handled is not
\* stored: the table stays absent.
ClearIsNotUndone ==
  [][/\ ClearData => capturedData' = EmptyCaptured
     /\ \A i \in Runs :
          (ForwardResult(i) /\ run[i].cleared /\ capturedData.parsedTable.null)
            => capturedData'.parsedTable.null]_vars

\* ------------------------------------------------------------------------
\* Properties of the interceptor's flag
\* ------------------------------------------------------------------------

\* C40: a response body in which findAllTableArrays finds a candidate is one
\* for which containsTableData is true, so that the response is flagged.
EveryTableIsFlagged ==
  (parsing.pc = "searched" /\ parsing.found # << >>)
  => containsTableData(parsing.val)

====
